---- MODULE Spec2Model ----
(***************************************************************************)
(* The RAG pipeline of rag-chatbot: the extract-embeddings Edge Function   *)
(* (ingestion), the query-chat Edge Function (retrieval and answer         *)
(* synthesis) and the two tables they share, documents and document_chunks.*)
(* Every await of a handler is a step; the outcome of every remote call    *)
(* (auth lookup, table read or write, storage download, embedding request, *)
(* chat-completion request, match_documents) is chosen by the environment. *)
(***************************************************************************)
EXTENDS Integers, Sequences, FiniteSets, TLC

VARIABLES
    GROQ_API_KEY,     \* TRUE iff the function environment holds the API credential
    documents,        \* table documents: id -> [uploaded_by, processing_status]
    document_chunks,  \* table document_chunks: rows in insertion order, id = position
    ing,              \* the extract-embeddings invocations, one record per run slot
    qry,              \* the query-chat invocation
    ingests,          \* number of extract-embeddings requests received so far
    split,            \* one application of splitTextIntoChunks: input and result
    browser           \* the web front end: page load and one uploadSingleFile call

vars == <<GROQ_API_KEY, documents, document_chunks, ing, qry, ingests, split, browser>>

\* splitTextIntoChunks not called; no page open in the browser
NoSplit == [pc |-> "none"]
NoPage == [pc |-> "none"]

----------------------------------------------------------------------------
(* Bounds of the model *)

\* number of extract-embeddings requests in one behaviour
MaxIngests == 2
\* number of HTTP 429 answers the embedding service may give to one call
Max429 == 2

----------------------------------------------------------------------------
(* Program constants *)

maxAttempts == 3
batchSize == 10
match_count == 5
\* similarities are kept in hundredths: match_threshold 0.1 is 10, the
\* fallback's placeholder similarity 0.5 is 50
match_threshold == 10
FallbackSimilarity == 50
FallbackLimit == 5
RateLimitDelay == 2000
BatchDelay == 500

----------------------------------------------------------------------------
(* The users, the documents uploaded by them and the files a request names *)

Users == {"u1", "u2"}
Docs == {"d1", "d2"}
NoDoc == "none"
NoUser == "nobody"

\* documents.uploaded_by, set by the upload and never changed
Owner(d) == IF d = "d1" THEN "u1" ELSE "u2"

Status == {"pending", "processing", "completed", "error"}

Min(a, b) == IF a <= b THEN a ELSE b

Range(s) == {s[k] : k \in 1..Len(s)}

\* Array.prototype.slice(from, to) on a 0-based array kept as a 1-based sequence
Slice(s, from, to) ==
    LET lo == IF from < 0 THEN 0 ELSE Min(from, Len(s))
        hi == IF to < 0 THEN 0 ELSE Min(to, Len(s))
    IN  IF hi <= lo THEN <<>> ELSE [k \in 1..(hi - lo) |-> s[lo + k]]

----------------------------------------------------------------------------
(* Texts, embedding vectors and cosine similarity.                         *)
(* A text is an opaque pair <<source, k>>.  The embedding service is       *)
(* deterministic: the vector of a text records the text it was made for    *)
(* and its direction, one of eight directions 45 degrees apart.            *)

Abs(x) == IF x < 0 THEN -x ELSE x

TextAngle(t) ==
    CASE t[1] = "q"    -> t[2] % 8
      [] t[1] = "a"    -> IF t[2] <= 1 THEN 0 ELSE IF t[2] <= 3 THEN 1
                          ELSE IF t[2] = 4 THEN 2 ELSE 4
      [] t[1] = "pdf"  -> 1
      [] t[1] = "docx" -> 4
      [] OTHER         -> t[2] % 8

\* the embedding the service returns for one input text
Embed(t) == [of |-> t, angle |-> TextAngle(t)]

\* response body of a successful embedding request: data[k].embedding, aligned
\* by index with the input array
EmbeddingResponse(batch) == [k \in 1..Len(batch) |-> Embed(batch[k])]

\* cosine of the angle between two directions, in hundredths
Cos100(d) == CASE d = 0 -> 100 [] d = 1 -> 71 [] d = 2 -> 0 [] d = 3 -> -71 [] OTHER -> -100

\* 1 - (chunk_embedding <=> query_embedding): <=> is the cosine distance
Similarity(v, w) ==
    LET d == Abs(v.angle - w.angle) IN Cos100(IF d > 4 THEN 8 - d ELSE d)

----------------------------------------------------------------------------
(* Files named by an ingestion request (filePath and fileName)             *)

SmallFiles == {"a.txt", "b.pdf", "e.txt", "s.txt", "x.bin", "gone.txt"}
BigFiles == {"m.txt", "n.txt", "c.docx"}

\* storage.from('documents').download(filePath) finds the object
InStorage(f) == f # "gone.txt"

\* fileName.toLowerCase().split('.').pop()
Extension(f) ==
    CASE f \in {"a.txt", "e.txt", "s.txt", "gone.txt", "m.txt", "n.txt"} -> "txt"
      [] f = "b.pdf"  -> "pdf"
      [] f = "c.docx" -> "docx"
      [] OTHER        -> "bin"

\* the decoded content of a stored .txt object, as a text id
Decoded(f) ==
    CASE f = "e.txt" -> "blank"
      [] f = "s.txt" -> "short"
      [] f = "m.txt" -> "m"
      [] f = "n.txt" -> "n"
      [] OTHER       -> "a"

Unsupported == "unsupported"

extractTextFromFile(f) ==
    CASE Extension(f) = "txt"  -> Decoded(f)
      [] Extension(f) = "pdf"  -> "pdf"
      [] Extension(f) = "docx" -> "docx"
      [] OTHER                 -> Unsupported

\* !textContent || textContent.trim().length === 0
IsBlank(text) == text = "blank"

\* number of chunks splitTextIntoChunks(textContent, CHUNK_SIZE, CHUNK_OVERLAP)
\* yields for each text: the placeholders are one sentence of 65 and 66
\* characters, "short" has only chunks of 10 characters or less
ChunkCount(text) ==
    CASE text = "a" -> 6
      [] text = "m" -> 2 * batchSize
      [] text = "n" -> 2 * batchSize + 1
      [] text \in {"pdf", "docx"} -> 1
      [] OTHER -> 0

ChunksOfText(text) == [k \in 1..ChunkCount(text) |-> <<text, k - 1>>]

----------------------------------------------------------------------------
(* The extract-embeddings handler                                          *)

Runs == {"r1"}

NoResponse == [status |-> 0, success |-> FALSE, error |-> ""]
Null == [of |-> <<"null", 0>>, angle |-> 0]

IngIdle ==
    [pc |-> "idle", userId |-> NoUser, documentId |-> NoDoc, file |-> "",
     chunks |-> <<>>, i |-> 0, embeddings |-> <<>>, reqs |-> <<>>,
     err |-> "", io |-> {}, inserted |-> 0, response |-> NoResponse]
\* io: the kinds of call the invocation has made to the outside: "auth",
\* "status_write", "download", "insert", "error_write" (and "error_written"
\* when the store accepted that write, "error_write_logged" when the inner
\* catch of lines 441-445 logged its failure); embedding requests are in reqs

\* the Bearer token of a request: none (no Authorization header), one that
\* auth.getUser rejects, or the token of a user
Tokens == {"none", "invalid"} \cup Users

\* new Response(...) returned by the handler: the invocation is over and its
\* local variables are gone; what it did to the outside (io, inserted) stays
Respond(rec, status, success, error) ==
    [IngIdle EXCEPT !.pc = "done",
                    !.documentId = rec.documentId,
                    !.io = rec.io,
                    !.inserted = rec.inserted,
                    !.response = [status |-> status, success |-> success, error |-> error]]

\* throw new Error(msg) inside the handler's try block
Throw(rec, msg) == [rec EXCEPT !.pc = "catch", !.err = msg]

\* .from('documents').update({ processing_status }).eq('id', documentId);
\* the returned { error } is never inspected by the handler.  In the actions
\* below `oks` is the set of outcomes the store may give to a write: {TRUE}
\* when every write succeeds, BOOLEAN when a write may fail
\* variant: the update has no .eq('id', documentId) filter
UpdateStatus_EveryRow(docs, documentId, status, ok) ==
    IF ok
    THEN [d \in DOMAIN docs |-> [docs[d] EXCEPT !.processing_status = status]]
    ELSE docs

UpdateStatus(docs, documentId, status, ok) ==
    IF ok /\ documentId \in DOMAIN docs
    THEN [docs EXCEPT ![documentId].processing_status = status]
    ELSE docs

\* what becomes of an update of documents: the store accepts it, the client
\* returns { error } (the handler never looks at it), or the awaited call
\* throws; the last two only where writes may fail
WriteOutcomes(oks) ==
    {"accepted"} \cup (IF FALSE \in oks THEN {"rejected", "thrown"} ELSE {})

\* the shapes of request the handler tells apart: wrong method, a body that
\* is no JSON, no Authorization header, a token that resolves to no user or
\* to another user than userId, and the authorized requests
IngestRequests(docs, files) ==
    {[method |-> "GET", bodyOk |-> TRUE, token |-> "none", userId |-> "u1",
      documentId |-> NoDoc, file |-> ""],
     [method |-> "POST", bodyOk |-> FALSE, token |-> "none", userId |-> "u1",
      documentId |-> NoDoc, file |-> ""],
     [method |-> "POST", bodyOk |-> TRUE, token |-> "none", userId |-> "u1",
      documentId |-> "d1", file |-> "a.txt"],
     [method |-> "POST", bodyOk |-> TRUE, token |-> "invalid", userId |-> "u1",
      documentId |-> "d1", file |-> "a.txt"],
     [method |-> "POST", bodyOk |-> TRUE, token |-> "u2", userId |-> "u1",
      documentId |-> "d1", file |-> "a.txt"]}
    \cup
    {[method |-> "POST", bodyOk |-> TRUE, token |-> u, userId |-> u,
      documentId |-> d, file |-> f] : u \in Users, d \in docs, f \in files}

\* the request is past the session check and the handler goes on
IngestAccepted(req) ==
    [IngIdle EXCEPT !.pc = "set_processing", !.userId = req.userId,
                    !.documentId = req.documentId,
                    !.file = req.file, !.io = {"auth"}]

\* variant: the user of the token is not compared with userId
IngestEntry_NoUserCheck(req) ==
    IF req.method # "POST" THEN Respond(IngIdle, 405, FALSE, "Method not allowed")
    ELSE IF ~req.bodyOk THEN Throw(IngIdle, "Unexpected token in JSON")
    ELSE IF req.token = "none"
    THEN Respond(IngIdle, 401, FALSE, "Missing authorization")
    ELSE IF req.token = "invalid"
    THEN Respond([IngIdle EXCEPT !.io = {"auth"}], 401, FALSE, "Unauthorized")
    ELSE IngestAccepted(req)

\* lines 313-347: method check, req.json(), Authorization header, auth.getUser
IngestEntry(req) ==
    IF req.method # "POST" THEN Respond(IngIdle, 405, FALSE, "Method not allowed")
    ELSE IF ~req.bodyOk THEN Throw(IngIdle, "Unexpected token in JSON")
    ELSE IF req.token = "none"
    THEN Respond(IngIdle, 401, FALSE, "Missing authorization")
    ELSE IF req.token = "invalid" \/ req.token # req.userId
    THEN Respond([IngIdle EXCEPT !.io = {"auth"}], 401, FALSE, "Unauthorized")
    ELSE IngestAccepted(req)

IngestRequest(r, docs, files) ==
    /\ ing[r].pc \in {"idle", "done"}
    /\ ingests < MaxIngests
    /\ ingests' = ingests + 1
    /\ \E req \in IngestRequests(docs, files) :
          ing' = [ing EXCEPT ![r] = IngestEntry(req)]
    /\ UNCHANGED <<split, browser, GROQ_API_KEY, documents, document_chunks, qry>>

\* lines 349-353: status -> processing
IngestSetProcessing(r, oks) ==
    /\ ing[r].pc = "set_processing"
    /\ \E out \in WriteOutcomes(oks) :
          LET rec == [ing[r] EXCEPT !.io = @ \cup {"status_write"}]
          IN  /\ documents' = UpdateStatus(documents, ing[r].documentId, "processing",
                                          out = "accepted")
              /\ ing' = [ing EXCEPT ![r] =
                     IF out = "thrown" THEN Throw(rec, "error sending request")
                     ELSE [rec EXCEPT !.pc = "download"]]
    /\ UNCHANGED <<split, browser, GROQ_API_KEY, document_chunks, qry, ingests>>

\* lines 528-534: entry of generateEmbeddingsForChunks
EnterEmbeddings(rec, chunks, key) ==
    IF ~key THEN Throw(rec, "GROQ_API_KEY environment variable not set")
    ELSE [rec EXCEPT !.pc = "embed", !.chunks = chunks, !.i = 0, !.embeddings = <<>>]

\* variant: a handler without the check of lines 375-377
ExtractAndChunk_NoEmptyCheck(rec, key) ==
    LET textContent == extractTextFromFile(rec.file)
    IN  IF textContent = Unsupported THEN Throw(rec, "Unsupported file type")
        ELSE IF IsBlank(textContent) THEN Throw(rec, "No text content extracted from file")
        ELSE EnterEmbeddings(rec, ChunksOfText(textContent), key)

\* lines 366-386: extraction, chunking and the call of generateEmbeddingsForChunks
ExtractAndChunk(rec, key) ==
    LET textContent == extractTextFromFile(rec.file)
        chunks == ChunksOfText(textContent)
    IN  IF textContent = Unsupported THEN Throw(rec, "Unsupported file type")
        ELSE IF IsBlank(textContent) THEN Throw(rec, "No text content extracted from file")
        ELSE IF Len(chunks) = 0 THEN Throw(rec, "No chunks created from text content")
        ELSE EnterEmbeddings(rec, chunks, key)

\* lines 355-386: storage download, then ExtractAndChunk
IngestDownload(r) ==
    /\ ing[r].pc = "download"
    /\ \E found \in {InStorage(ing[r].file), FALSE} :
          LET rec == [ing[r] EXCEPT !.io = @ \cup {"download"}]
          IN  ing' = [ing EXCEPT ![r] =
                  IF ~found THEN Throw(rec, "Failed to download file")
                  ELSE ExtractAndChunk(rec, GROQ_API_KEY)]
    /\ UNCHANGED <<split, browser, GROQ_API_KEY, documents, document_chunks, qry, ingests>>

----------------------------------------------------------------------------
(* generateEmbeddingsForChunks: the loop of lines 536-586                  *)

\* chunks.slice(i, i + batchSize)
Batch(chunks, i) == Slice(chunks, i, i + batchSize)

\* a loop that "continue"s without "i -= batchSize": the update moves on
IndexAfter429_Skip(i) == i + batchSize

\* a loop that starts over from the first batch after a 429
IndexAfter429_Restart(i) == 0

\* the loop variable after a 429: "i -= batchSize; continue" runs the for
\* statement's update "i += batchSize"
IndexAfter429(i) == (i - batchSize) + batchSize

\* the loop variable after a batch was appended: the update "i += batchSize"
IndexAfterSuccess(i) == i + batchSize

\* number of 429 answers a call has received so far
Count429(reqs) == Cardinality({k \in 1..Len(reqs) : reqs[k].status = 429})

\* one request record: the batch sent, the answer, the wait that follows it
EmbReq(i, batch, status, sleep) ==
    [start |-> i, batch |-> batch, status |-> status, sleep |-> sleep]

\* variant: the 500 ms wait of lines 574-577 without its condition
EmbedIteration_AlwaysWaits(rec, status) ==
    LET i == rec.i
        batch == Batch(rec.chunks, i)
    IN  CASE status = 429 ->
               [rec EXCEPT !.reqs = Append(@, EmbReq(i, batch, 429, RateLimitDelay)),
                           !.i = IndexAfter429(i)]
          [] status = 200 ->
               [rec EXCEPT !.reqs = Append(@, EmbReq(i, batch, 200, BatchDelay)),
                           !.embeddings = @ \o EmbeddingResponse(batch),
                           !.i = IndexAfterSuccess(i)]
          [] status = 0 ->
               Throw([rec EXCEPT !.reqs = Append(@, EmbReq(i, batch, 0, 0))],
                     "error sending request")
          [] OTHER ->
               Throw([rec EXCEPT !.reqs = Append(@, EmbReq(i, batch, status, 0))],
                     "Groq API error")

\* the record of a run after one iteration of the loop whose request was
\* answered with `status` (0: fetch rejected, no response)
EmbedIteration(rec, status) ==
    LET i == rec.i
        batch == Batch(rec.chunks, i)
    IN  CASE status = 429 ->
               [rec EXCEPT !.reqs = Append(@, EmbReq(i, batch, 429, RateLimitDelay)),
                           !.i = IndexAfter429(i)]
          [] status = 200 ->
               [rec EXCEPT !.reqs = Append(@, EmbReq(i, batch, 200,
                                 IF i + batchSize < Len(rec.chunks) THEN BatchDelay ELSE 0)),
                           !.embeddings = @ \o EmbeddingResponse(batch),
                           !.i = IndexAfterSuccess(i)]
          [] status = 0 ->
               Throw([rec EXCEPT !.reqs = Append(@, EmbReq(i, batch, 0, 0))],
                     "error sending request")
          [] OTHER ->
               Throw([rec EXCEPT !.reqs = Append(@, EmbReq(i, batch, status, 0))],
                     "Groq API error")

EmbedStatuses == {200, 429, 500, 0}

\* one iteration: the loop test holds, a batch is sent and answered
GenEmbRequest(r) ==
    /\ ing[r].pc = "embed"
    /\ ing[r].i < Len(ing[r].chunks)
    /\ \E status \in EmbedStatuses :
          /\ status = 429 => Count429(ing[r].reqs) < Max429
          /\ ing' = [ing EXCEPT ![r] = EmbedIteration(ing[r], status)]
    /\ UNCHANGED <<split, browser, GROQ_API_KEY, documents, document_chunks, qry, ingests>>

\* the loop test fails: return embeddings (line 588)
GenEmbReturn(r) ==
    /\ ing[r].pc = "embed"
    /\ ~(ing[r].i < Len(ing[r].chunks))
    /\ ing' = [ing EXCEPT ![r].pc = "insert"]
    /\ UNCHANGED <<split, browser, GROQ_API_KEY, documents, document_chunks, qry, ingests>>

----------------------------------------------------------------------------
(* The extract-embeddings handler, continued                               *)

\* variant: the vector is taken at the chunk's position within its batch
chunkRecords_BatchLocalIndex(documentId, chunks, embeddings) ==
    [k \in 1..Len(chunks) |->
        [document_id |-> documentId,
         chunk_text |-> chunks[k],
         chunk_embedding |-> IF ((k - 1) % batchSize) + 1 <= Len(embeddings)
                             THEN embeddings[((k - 1) % batchSize) + 1] ELSE Null,
         chunk_index |-> k - 1]]

\* lines 389-394: chunks.map((chunk, index) => ({...}))
chunkRecords(documentId, chunks, embeddings) ==
    [k \in 1..Len(chunks) |->
        [document_id |-> documentId,
         chunk_text |-> chunks[k],
         chunk_embedding |-> IF k <= Len(embeddings) THEN embeddings[k] ELSE Null,
         chunk_index |-> k - 1]]

\* lines 396-402: insert of the chunk rows
IngestInsert(r, oks) ==
    /\ ing[r].pc = "insert"
    /\ \E ok \in oks :
          LET rec == [ing[r] EXCEPT !.io = @ \cup {"insert"}]
              rows == chunkRecords(rec.documentId, rec.chunks, rec.embeddings)
          IN  IF ok
              THEN /\ document_chunks' = document_chunks \o rows
                   /\ ing' = [ing EXCEPT ![r] =
                          [rec EXCEPT !.pc = "set_completed", !.inserted = Len(rows)]]
              ELSE /\ document_chunks' = document_chunks
                   /\ ing' = [ing EXCEPT ![r] = Throw(rec, "Failed to store chunks")]
    /\ UNCHANGED <<split, browser, GROQ_API_KEY, documents, qry, ingests>>

\* lines 404-422: status -> completed, response 200
IngestSetCompleted(r, oks) ==
    /\ ing[r].pc = "set_completed"
    /\ \E out \in WriteOutcomes(oks) :
          /\ documents' = UpdateStatus(documents, ing[r].documentId, "completed",
                                      out = "accepted")
          /\ ing' = [ing EXCEPT ![r] =
                 IF out = "thrown" THEN Throw(ing[r], "error sending request")
                 ELSE Respond(ing[r], 200, TRUE, "")]
    /\ UNCHANGED <<split, browser, GROQ_API_KEY, document_chunks, qry, ingests>>

\* a catch block that only answers 500, without the status update
IngestCatch_NoStatusWrite(r, oks) ==
    /\ ing[r].pc = "catch"
    /\ ing' = [ing EXCEPT ![r] = Respond(ing[r], 500, FALSE, ing[r].err)]
    /\ UNCHANGED <<split, browser, GROQ_API_KEY, documents, document_chunks, qry, ingests>>

\* lines 424-454: the catch block: status -> error when the request named a
\* document, response 500 with the message of the error caught
IngestCatch(r, oks) ==
    /\ ing[r].pc = "catch"
    /\ IF ing[r].documentId # NoDoc
       THEN \E out \in WriteOutcomes(oks) :
               /\ documents' = UpdateStatus(documents, ing[r].documentId, "error",
                                           out = "accepted")
               /\ ing' = [ing EXCEPT ![r] =
                      Respond([ing[r] EXCEPT !.io = @ \cup
                                  (CASE out = "accepted" -> {"error_write", "error_written"}
                                     [] out = "thrown"   -> {"error_write", "error_write_logged"}
                                     [] OTHER            -> {"error_write"})],
                              500, FALSE, ing[r].err)]
       ELSE /\ documents' = documents
            /\ ing' = [ing EXCEPT ![r] = Respond(ing[r], 500, FALSE, ing[r].err)]
    /\ UNCHANGED <<split, browser, GROQ_API_KEY, document_chunks, qry, ingests>>

----------------------------------------------------------------------------
(* Reads of document_chunks                                                *)

\* the positions of a set of rows in the order a scan of the table that
\* starts at row `from` and wraps around meets them
RECURSIVE ScanOrder(_, _, _)
ScanOrder(ids, from, n) ==
    IF ids = {} THEN <<>>
    ELSE LET after == {x \in ids : x >= from}
             first == IF after # {} THEN CHOOSE x \in after : \A y \in after : x <= y
                      ELSE CHOOSE x \in ids : \A y \in ids : x <= y
         IN  <<first>> \o ScanOrder(ids \ {first}, from, n)

\* the first `limit` elements of a sequence
Limit(s, limit) == Slice(s, 0, limit)

\* a row as a query returns it: id, document_id, chunk_text, similarity
ResultRow(table, id, similarity) ==
    [id |-> id, document_id |-> table[id].document_id,
     chunk_text |-> table[id].chunk_text, similarity |-> similarity]

\* rows of the table that pass the WHERE clause of match_documents (a row
\* without embedding yields NULL and is not selected)
Matching(table, query_embedding, threshold) ==
    {id \in 1..Len(table) :
        /\ table[id].chunk_embedding # Null
        /\ Similarity(table[id].chunk_embedding, query_embedding) > threshold}

\* ORDER BY chunk_embedding <=> query_embedding: ascending distance, rows at
\* equal distance in the order the scan met them
RECURSIVE OrderByDistance(_, _, _)
OrderByDistance(table, scanned, query_embedding) ==
    IF scanned = <<>> THEN <<>>
    ELSE LET sim(k) == Similarity(table[scanned[k]].chunk_embedding, query_embedding)
             best == CHOOSE k \in 1..Len(scanned) :
                        /\ \A j \in 1..Len(scanned) : sim(j) <= sim(k)
                        /\ \A j \in 1..(k - 1) : sim(j) < sim(k)
             rest == [j \in 1..(Len(scanned) - 1) |->
                         IF j < best THEN scanned[j] ELSE scanned[j + 1]]
         IN  <<scanned[best]>> \o OrderByDistance(table, rest, query_embedding)

\* variant: the SELECT has no ORDER BY, the rows come in scan order
match_documents_Unordered(table, query_embedding, threshold, count, from) ==
    LET scanned == ScanOrder(Matching(table, query_embedding, threshold), from, Len(table))
        limited == Limit(scanned, count)
    IN  [k \in 1..Len(limited) |->
            ResultRow(table, limited[k],
                      Similarity(table[limited[k]].chunk_embedding, query_embedding))]

\* the SQL function match_documents(query_embedding, match_threshold,
\* match_count) over the whole table, for a scan that starts at row `from`
match_documents(table, query_embedding, threshold, count, from) ==
    LET scanned == ScanOrder(Matching(table, query_embedding, threshold), from, Len(table))
        ordered == Limit(OrderByDistance(table, scanned, query_embedding), count)
    IN  [k \in 1..Len(ordered) |->
            ResultRow(table, ordered[k],
                      Similarity(table[ordered[k]].chunk_embedding, query_embedding))]

\* variant: the filter of lines 186-188 is missing
FilterUserChunks_NoFilter(chunks, documentIds) == chunks

\* chunks.filter(chunk => documentIds.includes(chunk.document_id))
FilterUserChunks(chunks, documentIds) ==
    SelectSeq(chunks, LAMBDA chunk : chunk.document_id \in documentIds)

\* variant: the query of the fallback has no .limit(5)
fallbackTextSearch_NoLimit(table, documentIds, from) ==
    LET ids == {id \in 1..Len(table) : table[id].document_id \in documentIds}
        rows == ScanOrder(ids, from, Len(table))
    IN  [k \in 1..Len(rows) |-> ResultRow(table, rows[k], FallbackSimilarity)]

\* .from('document_chunks').select(...).in('document_id', documentIds).limit(5)
\* followed by the map that adds similarity: 0.5
fallbackTextSearch(table, documentIds, from) ==
    LET ids == {id \in 1..Len(table) : table[id].document_id \in documentIds}
        rows == Limit(ScanOrder(ids, from, Len(table)), FallbackLimit)
    IN  [k \in 1..Len(rows) |-> ResultRow(table, rows[k], FallbackSimilarity)]

\* number of stored chunk rows of a set of documents
OwnChunks(table, documentIds) ==
    Cardinality({id \in 1..Len(table) : table[id].document_id \in documentIds})

\* the rows a scan may start at: the first row, or the last one (the scan
\* then wraps around)
ScanStarts(table) == IF Len(table) = 0 THEN {1} ELSE {1, Len(table)}

----------------------------------------------------------------------------
(* The query-chat handler                                                  *)

QueryTexts == {<<"q", 1>>, <<"q", 4>>, <<"q", 6>>}
NoQuery == <<"", 0>>

NoInfoAnswer == "I couldn't find any relevant information in your documents"
GenericFailure == "Failed to process query. Please try again."

QryIdle ==
    [pc |-> "idle", userId |-> NoUser, query |-> NoQuery,
     queryEmbedding |-> Null, documentIds |-> {}, relevantChunks |-> <<>>,
     path |-> "", rpc |-> "", matched |-> 0, ownChunks |-> 0, calls |-> {}, attempt |-> 0, chat |-> <<>>, err |-> "",
     response |-> [status |-> 0, answer |-> "", error |-> "", sourceChunks |-> <<>>]]

\* new Response(...) returned by the handler: the invocation is over; the
\* record keeps what the invocation did and what findRelevantChunks returned
QRespond(rec, status, answer, error, sourceChunks) ==
    [rec EXCEPT !.pc = "done", !.query = NoQuery, !.queryEmbedding = Null, !.attempt = 0,
                !.response = [status |-> status, answer |-> answer, error |-> error,
                              sourceChunks |-> sourceChunks]]

\* variant: the catch block answers with the message of the caught error
QCatch_LeaksCause(rec, msg) ==
    QRespond([rec EXCEPT !.err = msg], 500, "", msg, <<>>)

\* lines 88-100: the handler's catch block: log the cause, answer 500 with
\* the fixed message
QCatch(rec, msg) ==
    QRespond([rec EXCEPT !.err = msg], 500, "", GenericFailure, <<>>)

\* the handler's state once the caller is verified (line 50)
AcceptedQuery(userId, query) ==
    [QryIdle EXCEPT !.pc = "embed", !.userId = userId, !.query = query, !.calls = {"auth"}]

\* the shapes of request the handler tells apart
QueryRequests ==
    {[method |-> "GET", bodyOk |-> TRUE, token |-> "none", userId |-> "u1", query |-> NoQuery],
     [method |-> "POST", bodyOk |-> FALSE, token |-> "none", userId |-> "u1", query |-> NoQuery],
     [method |-> "POST", bodyOk |-> TRUE, token |-> "u1", userId |-> "u1", query |-> NoQuery],
     [method |-> "POST", bodyOk |-> TRUE, token |-> "u1", userId |-> NoUser, query |-> <<"q", 1>>],
     [method |-> "POST", bodyOk |-> TRUE, token |-> "none", userId |-> "u1", query |-> <<"q", 1>>],
     [method |-> "POST", bodyOk |-> TRUE, token |-> "invalid", userId |-> "u1", query |-> <<"q", 1>>],
     [method |-> "POST", bodyOk |-> TRUE, token |-> "u2", userId |-> "u1", query |-> <<"q", 1>>]}
    \cup
    {[method |-> "POST", bodyOk |-> TRUE, token |-> u, userId |-> u, query |-> q] :
        u \in Users, q \in QueryTexts}

\* lines 16-50: method check, req.json(), missing fields, Authorization
\* header, auth.getUser
QueryEntry(req) ==
    IF req.method # "POST"
    THEN QRespond(QryIdle, 405, "", "Method not allowed", <<>>)
    ELSE IF ~req.bodyOk THEN QCatch(QryIdle, "Unexpected token in JSON")
    ELSE IF req.query = NoQuery \/ req.userId = NoUser
    THEN QRespond(QryIdle, 400, "", "Missing query or userId", <<>>)
    ELSE IF req.token = "none"
    THEN QRespond(QryIdle, 401, "", "Missing authorization", <<>>)
    ELSE IF req.token = "invalid" \/ req.token # req.userId
    THEN QRespond([QryIdle EXCEPT !.calls = {"auth"}], 401, "", "Unauthorized", <<>>)
    ELSE AcceptedQuery(req.userId, req.query)

QueryRequest ==
    /\ qry.pc = "idle"
    /\ \E req \in QueryRequests :
          qry' = QueryEntry(req)
    /\ UNCHANGED <<split, browser, GROQ_API_KEY, documents, document_chunks, ing, ingests>>

\* lines 109-138: generateQueryEmbedding, one request, no retry
generateQueryEmbedding(rec, key, status) ==
    IF ~key THEN QCatch(rec, "GROQ_API_KEY environment variable not set")
    ELSE LET sent == [rec EXCEPT !.calls = @ \cup {"embed"}]
         IN  IF status = 0 THEN QCatch(sent, "error sending request")
             ELSE IF status # 200 THEN QCatch(sent, "Failed to generate query embedding")
             ELSE [sent EXCEPT !.pc = "docs",
                               !.queryEmbedding = EmbeddingResponse(<<rec.query>>)[1]]

QueryEmbed ==
    /\ qry.pc = "embed"
    /\ \E status \in EmbedStatuses :
          qry' = generateQueryEmbedding(qry, GROQ_API_KEY, status)
    /\ UNCHANGED <<split, browser, GROQ_API_KEY, documents, document_chunks, ing, ingests>>

\* .from('documents').select('id').eq('uploaded_by', userId)
\*     .eq('processing_status', 'completed')
CompletedDocumentsOf(docs, userId) ==
    {d \in DOMAIN docs : docs[d].uploaded_by = userId
                         /\ docs[d].processing_status = "completed"}

\* lines 222-243: entry of generateChatResponse
EnterChat(rec, key) ==
    IF ~key THEN QCatch(rec, "GROQ_API_KEY environment variable not set")
    ELSE [rec EXCEPT !.pc = "chat", !.calls = @ \cup {"chat"}, !.attempt = 0, !.chat = <<>>]

\* variant: the handler has no check of relevantChunks.length (lines 58-66)
HandleChunks_NoShortCircuit(rec, chunks, key) ==
    EnterChat([rec EXCEPT !.relevantChunks = chunks], key)

\* lines 56-69: the handler receives the list findRelevantChunks returned
HandleChunks(rec, chunks, key) ==
    LET got == [rec EXCEPT !.relevantChunks = chunks]
    IN  IF Len(chunks) = 0
        THEN QRespond(got, 200, NoInfoAnswer, "", <<>>)
        ELSE EnterChat(got, key)

\* lines 147-163: findRelevantChunks reads the user's completed documents
AfterDocuments(rec0, docs, ok, key) ==
    LET rec == [rec0 EXCEPT !.calls = @ \cup {"docs"}]
        userDocuments == CompletedDocumentsOf(docs, rec.userId)
    IN  IF ~ok THEN QCatch(rec, "Failed to fetch user documents")
        ELSE IF userDocuments = {}
        THEN HandleChunks([rec EXCEPT !.path = "nodocs"], <<>>, key)
        ELSE [rec EXCEPT !.pc = "rpc", !.documentIds = userDocuments]

FindDocuments ==
    /\ qry.pc = "docs"
    /\ \E ok \in BOOLEAN : qry' = AfterDocuments(qry, documents, ok, GROQ_API_KEY)
    /\ UNCHANGED <<split, browser, GROQ_API_KEY, documents, document_chunks, ing, ingests>>

\* lines 165-190: the match_documents call and what findRelevantChunks does
\* with its outcome
AfterRpc(rec0, table, ok, from, key) ==
    LET rec == [rec0 EXCEPT !.calls = @ \cup {"rpc"},
                            !.ownChunks = OwnChunks(table, rec0.documentIds)]
        chunks == match_documents(table, rec.queryEmbedding,
                                  match_threshold, match_count, from)
    IN  IF ~ok \/ Len(chunks) = 0
        THEN [rec EXCEPT !.pc = "fallback", !.rpc = IF ok THEN "empty" ELSE "error"]
        ELSE HandleChunks([rec EXCEPT !.path = "similarity", !.rpc = "rows",
                                      !.matched = Len(chunks)],
                          FilterUserChunks(chunks, rec.documentIds), key)

FindRpc ==
    /\ qry.pc = "rpc"
    /\ \E ok \in BOOLEAN, from \in ScanStarts(document_chunks) :
          qry' = AfterRpc(qry, document_chunks, ok, from, GROQ_API_KEY)
    /\ UNCHANGED <<split, browser, GROQ_API_KEY, documents, document_chunks, ing, ingests>>

\* lines 199-214: fallbackTextSearch and the return of its result
AfterFallback(rec0, table, ok, from, key) ==
    LET rec == [rec0 EXCEPT !.calls = @ \cup {"fallback"},
                            !.ownChunks = OwnChunks(table, rec0.documentIds)]
    IN  IF ~ok THEN QCatch(rec, "Fallback search failed")
        ELSE HandleChunks([rec EXCEPT !.path = "fallback"],
                          fallbackTextSearch(table, rec.documentIds, from), key)

FindFallback ==
    /\ qry.pc = "fallback"
    /\ \E ok \in BOOLEAN, from \in ScanStarts(document_chunks) :
          qry' = AfterFallback(qry, document_chunks, ok, from, GROQ_API_KEY)
    /\ UNCHANGED <<split, browser, GROQ_API_KEY, documents, document_chunks, ing, ingests>>

----------------------------------------------------------------------------
(* generateChatResponse: the loop of lines 242-294                         *)

RECURSIVE Pow2(_)
Pow2(n) == IF n = 0 THEN 1 ELSE 2 * Pow2(n - 1)

\* Math.min(1000 * Math.pow(2, attempt), 60000)
RateLimitBackoff(attempt) == Min(1000 * Pow2(attempt), 60000)

\* variant: the catch block waits before it increments attempt
ErrorBackoff_BeforeIncrement(attempt) == 1000 * (attempt - 1)

\* 1000 * attempt, with attempt already incremented by the catch block
ErrorBackoff(attempt) == 1000 * attempt

\* data.choices[0].message.content of the n-th request's response
AnswerOf(n) == "answer of request " \o ToString(n)

\* relevantChunks.map(chunk => ({ chunkId: chunk.id, score: chunk.similarity }))
SourceChunks(chunks) ==
    [k \in 1..Len(chunks) |-> [chunkId |-> chunks[k].id, score |-> chunks[k].similarity]]

ChatReq(status, delay) == [status |-> status, delay |-> delay]

\* variant: the 429 branch lacks "attempt++" (line 267)
ChatIteration_429NotCounted(rec, status) ==
    LET attempt == rec.attempt
    IN  CASE status = 200 ->
               QRespond([rec EXCEPT !.chat = Append(@, ChatReq(200, 0))],
                        200, AnswerOf(Len(rec.chat) + 1), "",
                        SourceChunks(rec.relevantChunks))
          [] status = 429 ->
               [rec EXCEPT !.chat = Append(@, ChatReq(429, RateLimitBackoff(attempt)))]
          [] OTHER ->
               LET next == attempt + 1
               IN  IF next >= maxAttempts
                   THEN QCatch([rec EXCEPT !.chat = Append(@, ChatReq(status, 0)),
                                           !.attempt = next],
                               IF status = 0 THEN "error sending request" ELSE "Groq API error")
                   ELSE [rec EXCEPT !.chat = Append(@, ChatReq(status, ErrorBackoff(next))),
                                    !.attempt = next]

\* variant: the catch block counts its own failures only: it restarts the
\* counter at 1 when the failure before it was a 429
ChatIteration_SeparateBudgets(rec, status) ==
    LET attempt == rec.attempt
    IN  CASE status = 200 ->
               QRespond([rec EXCEPT !.chat = Append(@, ChatReq(200, 0))],
                        200, AnswerOf(Len(rec.chat) + 1), "",
                        SourceChunks(rec.relevantChunks))
          [] status = 429 ->
               LET waited == [rec EXCEPT
                                 !.chat = Append(@, ChatReq(429, RateLimitBackoff(attempt))),
                                 !.attempt = attempt + 1]
               IN  IF waited.attempt < maxAttempts THEN waited
                   ELSE QCatch(waited, "Failed to generate response after maximum attempts")
          [] OTHER ->
               LET next == IF Len(rec.chat) > 0 /\ rec.chat[Len(rec.chat)].status = 429
                           THEN 1 ELSE attempt + 1
               IN  IF next >= maxAttempts
                   THEN QCatch([rec EXCEPT !.chat = Append(@, ChatReq(status, 0)),
                                           !.attempt = next],
                               IF status = 0 THEN "error sending request" ELSE "Groq API error")
                   ELSE [rec EXCEPT !.chat = Append(@, ChatReq(status, ErrorBackoff(next))),
                                    !.attempt = next]

\* the handler's record after one iteration of the while loop whose request
\* was answered with `status` (0: fetch rejected, no response)
ChatIteration(rec, status) ==
    LET attempt == rec.attempt
    IN  CASE status = 200 ->
               QRespond([rec EXCEPT !.chat = Append(@, ChatReq(200, 0))],
                        200, AnswerOf(Len(rec.chat) + 1), "",
                        SourceChunks(rec.relevantChunks))
          [] status = 429 ->
               LET waited == [rec EXCEPT
                                 !.chat = Append(@, ChatReq(429, RateLimitBackoff(attempt))),
                                 !.attempt = attempt + 1]
               IN  IF waited.attempt < maxAttempts THEN waited
                   ELSE QCatch(waited, "Failed to generate response after maximum attempts")
          [] OTHER ->
               LET next == attempt + 1
               IN  IF next >= maxAttempts
                   THEN QCatch([rec EXCEPT !.chat = Append(@, ChatReq(status, 0)),
                                           !.attempt = next],
                               IF status = 0 THEN "error sending request" ELSE "Groq API error")
                   ELSE [rec EXCEPT !.chat = Append(@, ChatReq(status, ErrorBackoff(next))),
                                    !.attempt = next]

\* answers of the chat-completion endpoint: success, rate limit, another
\* non-success status, no response at all
ChatStatuses == {200, 429, 500, 0}

\* one iteration of the while loop: a chat-completion request and its answer
ChatRequest(statuses) ==
    /\ qry.pc = "chat"
    /\ qry.attempt < maxAttempts
    /\ \E status \in statuses : qry' = ChatIteration(qry, status)
    /\ UNCHANGED <<split, browser, GROQ_API_KEY, documents, document_chunks, ing, ingests>>

----------------------------------------------------------------------------
(* The system: both functions deployed, documents uploaded and pending     *)

Init ==
    /\ split = NoSplit
    /\ browser = NoPage
    /\ GROQ_API_KEY \in BOOLEAN
    /\ documents = [d \in Docs |-> [uploaded_by |-> Owner(d), processing_status |-> "pending"]]
    /\ document_chunks = <<>>
    /\ ing = [r \in Runs |-> IngIdle]
    /\ qry = QryIdle
    /\ ingests = 0

Ingest(r, docs, files, oks) ==
    \/ IngestRequest(r, docs, files)
    \/ IngestSetProcessing(r, oks)
    \/ IngestDownload(r)
    \/ GenEmbRequest(r)
    \/ GenEmbReturn(r)
    \/ IngestInsert(r, oks)
    \/ IngestSetCompleted(r, oks)
    \/ IngestCatch(r, oks)

Query(statuses) ==
    \/ QueryRequest
    \/ QueryEmbed
    \/ FindDocuments
    \/ FindRpc
    \/ FindFallback
    \/ ChatRequest(statuses)

\* the files the requests of the system specification name: one of several
\* chunks, one of a single chunk, one that is not in the bucket
SpecFiles == {"a.txt", "b.pdf", "gone.txt"}

\* the store takes every write
WritesAccepted == {TRUE}

\* the chat-completion endpoint answers with 200 or 429
SpecChatStatuses == {200, 429}

Next ==
    \/ \E r \in Runs : Ingest(r, Docs, SpecFiles, WritesAccepted)
    \/ Query(SpecChatStatuses)

Spec == Init /\ [][Next]_vars

----------------------------------------------------------------------------
(* Ingestion alone: requests that name document d1 or no document, over    *)
(* every kind of file, against a store whose writes may fail               *)

\* the documentId of a request: d1, or none
IngestDocs == {"d1", NoDoc}

IngestFiles == SmallFiles \cup BigFiles

\* a write is accepted, or it is not
WritesMayFail == BOOLEAN

NextIngest == \E r \in Runs : Ingest(r, IngestDocs, IngestFiles, WritesMayFail)

SpecIngest == Init /\ [][NextIngest]_vars

----------------------------------------------------------------------------
(* generateChatResponse alone: the handler has reached line 69 over a      *)
(* store in which d1 holds the chunks of a.txt and d2 the chunk of b.pdf,  *)
(* and the chat-completion endpoint answers in every way                   *)

\* the rows one successful ingestion of a text stores for a document
StoredRows(documentId, text) ==
    chunkRecords(documentId, ChunksOfText(text), EmbeddingResponse(ChunksOfText(text)))

ChatStore == StoredRows("d1", "a") \o StoredRows("d2", "pdf")

ChatDocuments ==
    [d \in Docs |-> [uploaded_by |-> Owner(d), processing_status |-> "completed"]]

\* the handler's state after lines 52-56 when every call before line 69 succeeds
QueryBeforeChat(userId, query, from) ==
    LET embedded == generateQueryEmbedding(AcceptedQuery(userId, query), TRUE, 200)
        read == AfterDocuments(embedded, ChatDocuments, TRUE, TRUE)
        searched == AfterRpc(read, ChatStore, TRUE, from, TRUE)
    IN  IF searched.pc = "fallback"
        THEN AfterFallback(searched, ChatStore, TRUE, from, TRUE)
        ELSE searched

InitChat ==
    /\ split = NoSplit
    /\ browser = NoPage
    /\ GROQ_API_KEY = TRUE
    /\ documents = ChatDocuments
    /\ document_chunks = ChatStore
    /\ ing = [r \in Runs |->
                Respond([IngIdle EXCEPT !.documentId = "d2", !.inserted = 1,
                             !.io = {"auth", "status_write", "download", "insert"}],
                        200, TRUE, "")]
    /\ ingests = 2
    /\ \E userId \in Users, query \in QueryTexts, from \in ScanStarts(ChatStore) :
          /\ qry = QueryBeforeChat(userId, query, from)
          /\ qry.pc = "chat"

NextChat == ChatRequest(ChatStatuses)

SpecChat == InitChat /\ [][NextChat]_vars

----------------------------------------------------------------------------
(* Claims about retrieval (specification Spec)                             *)

\* the list findRelevantChunks returned to the handler
Returned == qry.relevantChunks

\* findRelevantChunks has returned a list (rather than thrown)
HasReturned == qry.path \in {"nodocs", "similarity", "fallback"}

\* C1: every chunk findRelevantChunks returns, on the similarity path or on
\* the fallback path, belongs to a document of the set read at the start of
\* the query, and that document was uploaded by the querying user; no chunk
\* of another user's document is returned, whatever match_documents yields.
C1_RetrievalScoping ==
    \A k \in 1..Len(Returned) :
        /\ Returned[k].document_id \in qry.documentIds
        /\ Returned[k].document_id \in Docs
        /\ documents[Returned[k].document_id].uploaded_by = qry.userId
        /\ document_chunks[Returned[k].id].document_id = Returned[k].document_id

\* C1 witness: match_documents yielded rows of another user's document next
\* to rows of the user's own, and the list returned holds only the latter
C1_Witness ==
    /\ qry.path = "similarity"
    /\ Len(Returned) > 0
    /\ qry.matched > Len(Returned)

\* C2 (as claimed): whenever the querying user has a completed document with
\* a stored chunk, the list findRelevantChunks returns is not empty.
C2_ContextAvailable ==
    (HasReturned /\ qry.ownChunks > 0) => Len(Returned) > 0

\* C3: when match_documents fails or yields no row, findRelevantChunks
\* returns only what fallbackTextSearch returns: at most 5 chunks, all of the
\* user's completed documents, each with similarity 0.5, and at least one
\* chunk when those documents have a stored chunk.
C3_FallbackPolicy ==
    /\ qry.rpc \in {"error", "empty"} =>
          /\ qry.path \in {"", "fallback"}
          /\ qry.path = "" => (qry.pc = "fallback" \/ qry.err = "Fallback search failed")
    /\ qry.path = "fallback" =>
          /\ qry.rpc \in {"error", "empty"}
          /\ Len(Returned) <= 5
          /\ Len(Returned) = Min(5, qry.ownChunks)
          /\ \A k \in 1..Len(Returned) :
                /\ Returned[k].document_id \in qry.documentIds
                /\ Returned[k].similarity = 50
          /\ \A j, k \in 1..Len(Returned) : j # k => Returned[j].id # Returned[k].id
          /\ qry.ownChunks > 0 => Len(Returned) >= 1

\* C3 witness: match_documents yielded no row, the user's documents hold
\* more than 5 chunks and the fallback returned 5 of them
C3_Witness ==
    /\ qry.path = "fallback"
    /\ qry.rpc = "empty"
    /\ qry.ownChunks > 5
    /\ Len(Returned) = 5

\* C4: generateChatResponse is never called with an empty list; a user
\* without completed document gets the empty list without any call of
\* match_documents or of the fallback, and the handler answers 200 with the
\* fixed text and no source chunk.
C4_EmptyContextShortCircuit ==
    /\ "chat" \in qry.calls => Len(Returned) > 0
    /\ (HasReturned /\ Len(Returned) = 0) =>
          /\ qry.pc = "done"
          /\ qry.chat = <<>>
          /\ qry.response = [status |-> 200, answer |-> NoInfoAnswer, error |-> "",
                             sourceChunks |-> <<>>]
    /\ qry.path = "nodocs" =>
          /\ Returned = <<>>
          /\ qry.documentIds = {}
          /\ qry.calls \cap {"rpc", "fallback", "chat"} = {}

\* C4 witness: a user without completed document asks while the table holds
\* chunks of other documents, and gets the fixed answer
C4_Witness ==
    /\ qry.path = "nodocs"
    /\ qry.response.status = 200
    /\ Len(document_chunks) > 0

\* the message of the error thrown when the credential is not configured
KeyMissing == "GROQ_API_KEY environment variable not set"

\* C10 (as claimed): a run that fails because GROQ_API_KEY is not configured
\* has failed before any network call or other I/O: an ingestion run has
\* made no auth lookup, no status write, no download and no embedding
\* request, a query run no auth lookup and no request.
C10_ConfigurationFailFast ==
    /\ \A r \in Runs :
          (ing[r].pc = "done" /\ ing[r].response.error = KeyMissing) => ing[r].io = {}
    /\ (qry.pc = "done" /\ qry.err = KeyMissing) => qry.calls = {}

----------------------------------------------------------------------------
(* Claims about generateChatResponse (specification SpecChat)              *)

\* the answers the chat-completion requests of the call have received
ChatLog == qry.chat

Failed(k) == ChatLog[k].status # 200

\* C5: a call whose every chat-completion request is answered 429 issues
\* exactly 3 requests and then fails; it never issues a 4th request.
C5_RetryBound ==
    (\A k \in 1..Len(ChatLog) : ChatLog[k].status = 429) =>
        /\ Len(ChatLog) <= 3
        /\ qry.pc = "chat" => Len(ChatLog) < 3
        /\ qry.pc = "done" =>
              /\ Len(ChatLog) = 3
              /\ qry.err = "Failed to generate response after maximum attempts"
              /\ qry.response.status = 500
              /\ qry.response.answer = ""

\* C5 witness: three requests, each answered 429, and the call has failed
C5_Witness ==
    /\ qry.pc = "done"
    /\ Len(ChatLog) = 3
    /\ \A k \in 1..3 : ChatLog[k].status = 429

\* C6: whatever mix of 429 answers, other non-success answers and network
\* errors the requests meet, the call issues at most 3 requests; while it
\* runs the attempt counter equals the number of failed requests so far (one
\* per failure of either class, never reset); the call returns the answer of
\* the first successful request, and it fails only after 3 failed requests.
C6_SharedAttemptBudget ==
    /\ Len(ChatLog) <= 3
    /\ \A k \in 1..(Len(ChatLog) - 1) : Failed(k)
    /\ qry.pc = "chat" =>
          /\ qry.attempt = Len(ChatLog)
          /\ \A k \in 1..Len(ChatLog) : Failed(k)
    /\ (qry.pc = "done" /\ qry.response.status = 200) =>
          /\ Len(ChatLog) >= 1
          /\ ~Failed(Len(ChatLog))
          /\ qry.response.answer = AnswerOf(Len(ChatLog))
    /\ (qry.pc = "done" /\ qry.response.status # 200) =>
          /\ Len(ChatLog) = 3
          /\ \A k \in 1..3 : Failed(k)

\* C6 witness: a 429, then a failure of the other class, then a success
\* whose answer the call returns
C6_Witness ==
    /\ qry.pc = "done"
    /\ Len(ChatLog) = 3
    /\ ChatLog[1].status = 429
    /\ ChatLog[2].status \in {500, 0}
    /\ ChatLog[3].status = 200
    /\ qry.response.answer = AnswerOf(3)

----------------------------------------------------------------------------
(* generateEmbeddingsForChunks and the handler around it (SpecIngest)      *)

Run == ing["r1"]

EmbLog == Run.reqs

\* generateEmbeddingsForChunks has returned its list to the handler
EmbReturned == Run.pc \in {"insert", "set_completed"}

\* C7 (embedding order preservation): when generateEmbeddingsForChunks
\* returns, whatever 429 answers were interleaved with the successful ones, it
\* returns exactly one vector per chunk and the vector at position k is the
\* one the service produced for chunk k: none dropped, duplicated or moved
C7_EmbeddingOrderPreserved ==
    EmbReturned =>
        /\ Len(Run.embeddings) = Len(Run.chunks)
        /\ \A k \in 1..Len(Run.chunks) : Run.embeddings[k] = Embed(Run.chunks[k])

\* a list of three batches has been returned after a 429 on a later batch
C7_Witness ==
    /\ EmbReturned
    /\ Len(Run.chunks) = 2 * batchSize + 1
    /\ Len(Run.embeddings) = Len(Run.chunks)
    /\ \E k \in 1..Len(EmbLog) : EmbLog[k].status = 429 /\ EmbLog[k].start > 0

\* C8 (embedding 429 policy): after a 429 the next request is for the same
\* batch (same start index, same texts), the index has not advanced and
\* nothing was appended; no count of attempts ends this, so while the last
\* answer is a 429 the call is still in its loop, about to send that batch
\* again, and a call that has only had 429s has returned nothing
C8_SameBatchAfter429 ==
    /\ \A k \in 1..Len(EmbLog) :
          EmbLog[k].status = 429 =>
              /\ EmbLog[k].sleep = RateLimitDelay
              /\ k < Len(EmbLog) =>
                    /\ EmbLog[k + 1].start = EmbLog[k].start
                    /\ EmbLog[k + 1].batch = EmbLog[k].batch
              /\ k = Len(EmbLog) =>
                    /\ Run.pc = "embed"
                    /\ Run.i = EmbLog[k].start
                    /\ Run.i < Len(Run.chunks)
                    /\ Len(Run.embeddings) = EmbLog[k].start
                    /\ Batch(Run.chunks, Run.i) = EmbLog[k].batch
    /\ (Len(EmbLog) > 0 /\ \A k \in 1..Len(EmbLog) : EmbLog[k].status = 429) =>
          Run.pc = "embed" /\ Run.i = 0 /\ Run.embeddings = <<>>

\* the second batch was answered 429 twice and then sent a third time
C8_Witness ==
    /\ Len(EmbLog) >= 4
    /\ EmbLog[1].status = 200
    /\ EmbLog[2].status = 429 /\ EmbLog[2].start = batchSize
    /\ EmbLog[3].status = 429
    /\ EmbLog[4].status = 200 /\ EmbLog[4].start = batchSize

\* a response that is neither a success nor a 429
HardFailure(req) == req.status \notin {200, 429, 0}

\* the handler has answered a run whose embeddings call had a hard failure
AnsweredHardFailure == Run.pc = "done" /\ Run.response.error = "Groq API error"

\* C9 as stated: after a hard failure of an embedding request the document's
\* status is 'error'
C9_StatusIsError ==
    (AnsweredHardFailure /\ Run.documentId # NoDoc) =>
        documents[Run.documentId].processing_status = "error"

\* C9 (embedding hard failure): a non-success response other than 429 fails
\* the whole call: it is the last request of the call, no list is returned,
\* no chunk row is inserted, and the handler answers 500 after sending the
\* update of the document's status to 'error'; the status is 'error' when the
\* store accepted that update
C9_HardFailure ==
    /\ \A k \in 1..Len(EmbLog) :
          HardFailure(EmbLog[k]) =>
              /\ k = Len(EmbLog)
              /\ Run.pc = "catch"
              /\ Run.err = "Groq API error"
              /\ Run.inserted = 0 /\ "insert" \notin Run.io
    /\ AnsweredHardFailure =>
          /\ Run.response.status = 500
          /\ Run.inserted = 0 /\ "insert" \notin Run.io
          /\ Run.documentId # NoDoc =>
                /\ "error_write" \in Run.io
                /\ "error_written" \in Run.io =>
                      documents[Run.documentId].processing_status = "error"

\* a run on a document was answered after a hard failure and the store took
\* the update
C9_Witness ==
    /\ AnsweredHardFailure
    /\ Run.documentId # NoDoc
    /\ "error_written" \in Run.io
    /\ documents[Run.documentId].processing_status = "error"
    /\ Run.inserted = 0

----------------------------------------------------------------------------
(* Claims about the documents' lifecycle and the stored rows (SpecIngest)  *)

\* C11 (as claimed): over any sequence of invocations, repeated ones on the
\* same documentId included, a document's processing_status only changes
\* along pending -> processing, processing -> completed, pending -> error or
\* processing -> error, and never changes once 'completed' or 'error'.
C11_LifecycleTransitions ==
    [][LET LifecycleStep(from, to) ==
               \/ from = to
               \/ from = "pending" /\ to \in {"processing", "error"}
               \/ from = "processing" /\ to \in {"completed", "error"}
       IN  \A d \in Docs : LifecycleStep(documents[d].processing_status,
                                         documents'[d].processing_status)]_vars

\* number of rows of document_chunks that belong to a document
RowsOf(d) ==
    Cardinality({id \in 1..Len(document_chunks) : document_chunks[id].document_id = d})

\* C12 (as claimed): in every reachable state of the store a document has
\* chunk rows if and only if its processing_status is 'completed'.
C12_ChunksIffCompleted ==
    \A d \in Docs : (RowsOf(d) > 0) <=> (documents[d].processing_status = "completed")

\* the run was answered 500 after it had sent the update to 'processing' for
\* a document
FailedAfterProcessing ==
    /\ Run.pc = "done"
    /\ Run.response.status = 500
    /\ "status_write" \in Run.io
    /\ Run.documentId # NoDoc

\* the messages of the errors the steps after that update throw
StepErrors ==
    {"error sending request", "Failed to download file", "Unsupported file type",
     "No text content extracted from file", "No chunks created from text content",
     KeyMissing, "Groq API error", "Failed to store chunks"}

\* C13 (as claimed): when a step after the update to 'processing' fails, the
\* handler attempts the update to 'error' and then answers 500 with
\* success = false and the message of the original error; when that update
\* fails, the failure is logged and the answer is still the original error.
C13_FailureHandling ==
    FailedAfterProcessing =>
        /\ "error_write" \in Run.io
        /\ Run.response.success = FALSE
        /\ Run.response.error \in StepErrors
        /\ "error_written" \notin Run.io => "error_write_logged" \in Run.io

\* C14 (as claimed): whenever the handler answers 200 with success = true
\* for a document, the document's chunks have been inserted and its
\* processing_status is 'completed'.
C14_SuccessImpliesCompleted ==
    (Run.pc = "done" /\ Run.response.success /\ Run.documentId \in Docs) =>
        /\ Run.response.status = 200
        /\ Run.inserted > 0
        /\ RowsOf(Run.documentId) >= Run.inserted
        /\ documents[Run.documentId].processing_status = "completed"

\* the insert of the run's chunk rows has succeeded
Inserted == Run.pc = "set_completed"

\* C15 (index-for-index pairing): a successful ingestion of the chunks
\* c_0..c_{n-1} inserts exactly n rows; row k has chunk_index k, chunk_text
\* c_k and the vector the service produced for c_k, for any number of batches
\* and of 429 retries; no stored row lacks its vector or holds another
\* chunk's vector.
C15_IndexForIndexPairing ==
    /\ Inserted =>
          LET n == Len(Run.chunks)
              base == Len(document_chunks) - n
          IN  /\ n > 0
              /\ Run.inserted = n
              /\ base >= 0
              /\ \A k \in 1..n :
                    document_chunks[base + k] =
                        [document_id |-> Run.documentId,
                         chunk_text |-> Run.chunks[k],
                         chunk_embedding |-> Embed(Run.chunks[k]),
                         chunk_index |-> k - 1]
    /\ \A id \in 1..Len(document_chunks) :
          document_chunks[id].chunk_embedding = Embed(document_chunks[id].chunk_text)

\* the 21 chunks of a file of three batches were stored after a 429 on a
\* later batch
C15_Witness ==
    /\ Inserted
    /\ Len(Run.chunks) = 2 * batchSize + 1
    /\ Len(document_chunks) >= 2 * batchSize + 1
    /\ \E k \in 1..Len(EmbLog) : EmbLog[k].status = 429 /\ EmbLog[k].start > 0

\* the ids of the rows of document_chunks that belong to a document
RowIdsOf(d) == {id \in 1..Len(document_chunks) : document_chunks[id].document_id = d}

\* C16 (as claimed): after any sequence of runs, two runs on the same
\* documentId included, the chunk rows of each document have pairwise
\* distinct chunk_index values that form the range 0..n-1.
C16_ChunksCreatedOnce ==
    \A d \in Docs :
        /\ \A i, j \in RowIdsOf(d) :
              i # j => document_chunks[i].chunk_index # document_chunks[j].chunk_index
        /\ {document_chunks[i].chunk_index : i \in RowIdsOf(d)}
               = 0..(Cardinality(RowIdsOf(d)) - 1)

----------------------------------------------------------------------------
(* Claims about retrieval, continued (specification Spec)                  *)

\* the step in which findRelevantChunks returns its list
ReturnsNow == qry.path = "" /\ qry'.path # ""

\* C17 (as claimed): for every interleaving of a query with ingestion runs,
\* no chunk of the list findRelevantChunks returns belongs to a document
\* whose status is 'processing' or 'error' at the moment the list is
\* returned.
C17_InProgressInvisible ==
    [][ReturnsNow =>
          \A k \in 1..Len(qry'.relevantChunks) :
              documents'[qry'.relevantChunks[k].document_id].processing_status
                  \notin {"processing", "error"}]_vars

\* the rows of the user's completed documents whose similarity to the query
\* exceeds the threshold, at the time of the match_documents call
Qualifying ==
    {id \in Matching(document_chunks, qry.queryEmbedding, match_threshold) :
        document_chunks[id].document_id \in qry.documentIds}

\* the step in which findRelevantChunks returns on the similarity path
ReturnsSimilar == qry.pc = "rpc" /\ qry'.path = "similarity"

\* C18 (as claimed): the similarity path returns the most similar chunks,
\* up to 5, among the chunks of the user's completed documents above the
\* threshold: a user with k such chunks gets min(k, 5) of them, whatever
\* other users have stored.
C18_CandidatesRestrictedBeforeRanking ==
    [][ReturnsSimilar =>
          /\ Len(qry'.relevantChunks) = Min(Cardinality(Qualifying), match_count)
          /\ \A k \in 1..Len(qry'.relevantChunks) :
                qry'.relevantChunks[k].id \in Qualifying
          /\ \A id \in Qualifying :
                (\A k \in 1..Len(qry'.relevantChunks) : qry'.relevantChunks[k].id # id) =>
                    \A k \in 1..Len(qry'.relevantChunks) :
                        qry'.relevantChunks[k].similarity >=
                            Similarity(document_chunks[id].chunk_embedding,
                                       qry.queryEmbedding)]_vars

\* C19 (result shape): every list findRelevantChunks returns has at most 5
\* elements and is ordered by non-increasing similarity; every element
\* obtained on the similarity path has a similarity above the threshold 0.1
\* passed to match_documents.
C19_ResultShape ==
    /\ Len(Returned) <= 5
    /\ \A j, k \in 1..Len(Returned) :
          j < k => Returned[j].similarity >= Returned[k].similarity
    /\ qry.path = "similarity" =>
          \A k \in 1..Len(Returned) : Returned[k].similarity > match_threshold

\* the similarity path returned several chunks of different similarity,
\* after match_documents had filled all of its 5 slots
C19_Witness ==
    /\ qry.path = "similarity"
    /\ qry.matched = 5
    /\ Len(Returned) >= 2
    /\ Returned[1].similarity > Returned[Len(Returned)].similarity

\* C20 (as claimed): when the match_documents call reports an error (as it
\* does when the query vector's dimension differs from the stored one), the
\* query fails with an error surfaced to the caller; no chat request is made
\* and no answer is built from chunks.
C20_DimensionMismatchFailsLoudly ==
    qry.rpc = "error" =>
        /\ "chat" \notin qry.calls
        /\ qry.pc = "done" =>
              /\ qry.response.status = 500
              /\ qry.response.sourceChunks = <<>>

----------------------------------------------------------------------------
(* The two embedding paths side by side: generateQueryEmbedding(text) and  *)
(* generateEmbeddingsForChunks([text]) are given the same text and the     *)
(* same sequence of answers of the embeddings endpoint                     *)

PairTexts == {<<"q", k>> : k \in 0..7}

InitEmbedPair ==
    /\ split = NoSplit
    /\ browser = NoPage
    /\ GROQ_API_KEY \in BOOLEAN
    /\ documents = [d \in Docs |-> [uploaded_by |-> Owner(d), processing_status |-> "pending"]]
    /\ document_chunks = <<>>
    /\ ingests = 0
    /\ \E text \in PairTexts :
          /\ qry = AcceptedQuery("u1", text)
          /\ ing = [r \in Runs |->
                      EnterEmbeddings([IngIdle EXCEPT !.userId = "u1", !.documentId = "d1"],
                                      <<text>>, GROQ_API_KEY)]

\* the k-th answer of the endpoint is given to both calls; the query path
\* sends one request only (lines 114-134), so it takes the first answer
PairRequest(r) ==
    /\ ing[r].pc = "embed"
    /\ ing[r].i < Len(ing[r].chunks)
    /\ \E status \in EmbedStatuses :
          /\ status = 429 => Count429(ing[r].reqs) < Max429
          /\ ing' = [ing EXCEPT ![r] = EmbedIteration(ing[r], status)]
          /\ qry' = IF qry.pc = "embed"
                    THEN generateQueryEmbedding(qry, GROQ_API_KEY, status)
                    ELSE qry
    /\ UNCHANGED <<split, browser, GROQ_API_KEY, documents, document_chunks, ingests>>

\* with the credential missing the query path throws at its entry (line 110)
PairKeyMissing ==
    /\ ~GROQ_API_KEY
    /\ qry.pc = "embed"
    /\ qry' = generateQueryEmbedding(qry, GROQ_API_KEY, 0)
    /\ UNCHANGED <<split, browser, GROQ_API_KEY, documents, document_chunks, ing, ingests>>

NextEmbedPair ==
    \/ \E r \in Runs : PairRequest(r)
    \/ \E r \in Runs : GenEmbReturn(r)
    \/ PairKeyMissing

SpecEmbedPair == InitEmbedPair /\ [][NextEmbedPair]_vars

\* C21 (as claimed): for the same text and the same sequence of answers the
\* two paths have the same outcome: when generateEmbeddingsForChunks([text])
\* returns a vector, generateQueryEmbedding(text) has returned the same
\* vector, a 429 before the success being absorbed by a retry on both paths;
\* and when one path fails, so does the other.
C21_SingleTextIsBatchOfOne ==
    /\ Run.pc = "insert" =>
          /\ qry.pc = "docs"
          /\ Len(Run.embeddings) = 1
          /\ qry.queryEmbedding = Run.embeddings[1]
    /\ (Run.pc = "catch" /\ qry.pc # "embed") =>
          (qry.pc = "done" /\ qry.response.status = 500)

----------------------------------------------------------------------------
(* splitTextIntoChunks (extract-embeddings, lines 494-521), computed on    *)
(* strings as sequences of characters                                      *)

MaxPieces == 6
MinChunkLength == 10

Terminators == {".", "!", "?"}
WhiteSpace == {" ", "\n", "\t"}

\* String.prototype.trim
RECURSIVE TrimStart(_)
TrimStart(s) ==
    IF s # <<>> /\ Head(s) \in WhiteSpace THEN TrimStart(Tail(s)) ELSE s

RECURSIVE TrimEnd(_)
TrimEnd(s) ==
    IF s # <<>> /\ s[Len(s)] \in WhiteSpace
    THEN TrimEnd(SubSeq(s, 1, Len(s) - 1))
    ELSE s

Trim(s) == TrimEnd(TrimStart(s))

\* String.prototype.split on a one-character separator out of seps: one
\* piece more than there are separators, empty pieces kept
RECURSIVE SplitAt(_, _)
SplitAt(s, seps) ==
    LET hits == {k \in 1..Len(s) : s[k] \in seps}
    IN  IF hits = {}
        THEN <<s>>
        ELSE LET k == CHOOSE h \in hits : \A g \in hits : h <= g
             IN  <<SubSeq(s, 1, k - 1)>> \o SplitAt(SubSeq(s, k + 1, Len(s)), seps)

\* text.split(/[.!?]+/): a run of terminators is one separator, so no empty
\* piece stands between two terminators of a run; the pieces before a
\* leading and after a trailing run are kept
SplitOnTerminators(text) ==
    LET pieces == SplitAt(text, Terminators)
        kept == {k \in 1..Len(pieces) : k = 1 \/ k = Len(pieces) \/ pieces[k] # <<>>}
        RECURSIVE Pick(_)
        Pick(k) == IF k > Len(pieces) THEN <<>>
                   ELSE (IF k \in kept THEN <<pieces[k]>> ELSE <<>>) \o Pick(k + 1)
    IN  Pick(1)

\* line 496: the sentence candidates
SentencesOf(text) ==
    LET NotBlank(piece) == Len(Trim(piece)) > 0
    IN  SelectSeq(SplitOnTerminators(text), NotBlank)

\* Array.prototype.join
RECURSIVE Join(_, _)
Join(words, sep) ==
    IF words = <<>> THEN <<>>
    ELSE IF Len(words) = 1 THEN words[1]
    ELSE words[1] \o sep \o Join(Tail(words), sep)

\* words.slice(-n) for n >= 0: -0 is 0, so slice(-0) is slice(0), the whole
\* array; n beyond the length is clamped to the whole array
SliceFromEnd(words, n) ==
    IF n = 0 \/ n >= Len(words)
    THEN words
    ELSE SubSeq(words, Len(words) - n + 1, Len(words))

\* lines 509-511: the seed of the next chunk
OverlapSeed(currentChunk, overlap) ==
    Join(SliceFromEnd(SplitAt(currentChunk, {" "}), overlap \div 5), <<" ">>)

\* lines 500-514: the loop over the sentences, from sentence k on
RECURSIVE SplitLoop(_, _, _, _, _, _)
SplitLoop(sentences, k, currentChunk, chunks, chunkSize, overlap) ==
    IF k > Len(sentences)
    THEN [chunks |-> chunks, currentChunk |-> currentChunk]
    ELSE LET trimmedSentence == Trim(sentences[k])
         IN  IF trimmedSentence = <<>>
             THEN SplitLoop(sentences, k + 1, currentChunk, chunks, chunkSize, overlap)
             ELSE IF Len(currentChunk) + Len(trimmedSentence) > chunkSize
                     /\ Len(currentChunk) > 0
             THEN SplitLoop(sentences, k + 1,
                            OverlapSeed(currentChunk, overlap) \o <<" ">> \o trimmedSentence,
                            Append(chunks, Trim(currentChunk)),
                            chunkSize, overlap)
             ELSE SplitLoop(sentences, k + 1,
                            currentChunk \o <<" ">> \o trimmedSentence,
                            chunks, chunkSize, overlap)

\* variant: the trailing buffer is not emitted
CandidateChunks_NoTrailing(text, chunkSize, overlap) ==
    SplitLoop(SentencesOf(text), 1, <<>>, <<>>, chunkSize, overlap).chunks

\* lines 495-518: the chunks pushed, before the filter of line 520
CandidateChunks(text, chunkSize, overlap) ==
    LET end == SplitLoop(SentencesOf(text), 1, <<>>, <<>>, chunkSize, overlap)
    IN  IF Len(Trim(end.currentChunk)) > 0
        THEN Append(end.chunks, Trim(end.currentChunk))
        ELSE end.chunks

\* variant: the filter keeps chunks of exactly the minimum length
LongEnough_Inclusive(chunk) == Len(chunk) >= MinChunkLength

\* line 520
LongEnough(chunk) == Len(chunk) > MinChunkLength

splitTextIntoChunks(text, chunkSize, overlap) ==
    SelectSeq(CandidateChunks(text, chunkSize, overlap), LongEnough)

\* the input texts: up to MaxPieces pieces, each a word, a space or a
\* sentence terminator
Pieces == {<<"a", "a", "a", "a">>, <<"b", "b", "b", "b", "b", "b">>, <<" ">>, <<".">>}

RECURSIVE TextsOf(_)
TextsOf(n) ==
    IF n = 0 THEN {<<>>}
    ELSE LET shorter == TextsOf(n - 1)
         IN  shorter \cup {t \o piece : t \in shorter, piece \in Pieces}

ChunkSizes == {5, 20}
Overlaps == {0, 5, 10}

InitSplit ==
    /\ GROQ_API_KEY = TRUE
    /\ documents = [d \in Docs |-> [uploaded_by |-> Owner(d), processing_status |-> "pending"]]
    /\ document_chunks = <<>>
    /\ ing = [r \in Runs |-> IngIdle]
    /\ qry = QryIdle
    /\ ingests = 0
    /\ browser = NoPage
    /\ \E text \in TextsOf(MaxPieces), chunkSize \in ChunkSizes, overlap \in Overlaps :
          split = [pc |-> "called", text |-> text, chunkSize |-> chunkSize,
                   overlap |-> overlap, chunks |-> <<>>]

SplitReturn ==
    /\ split.pc = "called"
    /\ split' = [split EXCEPT !.pc = "returned",
                              !.chunks = splitTextIntoChunks(split.text, split.chunkSize,
                                                             split.overlap)]
    /\ UNCHANGED <<GROQ_API_KEY, documents, document_chunks, ing, qry, ingests, browser>>

NextSplit == SplitReturn

SpecSplit == InitSplit /\ [][NextSplit]_vars

\* the string s occurs in the string chunk
Contains(chunk, s) ==
    \E k \in 0..(Len(chunk) - Len(s)) : SubSeq(chunk, k + 1, k + Len(s)) = s

SplitReturned == split.pc = "returned"
SplitSentences == Range(SentencesOf(split.text))
SplitCandidates == CandidateChunks(split.text, split.chunkSize, split.overlap)

\* C22 (as claimed): for every non-empty text, targetSize and overlap, each
\* sentence candidate of the text occurs in at least one chunk returned by
\* splitTextIntoChunks.
C22_EverySentenceReturned ==
    SplitReturned =>
        \A sentence \in SplitSentences :
            \E k \in 1..Len(split.chunks) : Contains(split.chunks[k], Trim(sentence))

\* C22 (amended): each sentence candidate occurs in at least one chunk pushed
\* by the loop or by the trailing emit, and every pushed chunk longer than
\* 10 characters is returned; a sentence is missing from the result only
\* when every pushed chunk holding it is 10 characters long or shorter.
C22_EverySentencePushed ==
    SplitReturned =>
        /\ \A sentence \in SplitSentences :
              \E k \in 1..Len(SplitCandidates) :
                  Contains(SplitCandidates[k], Trim(sentence))
        /\ \A k \in 1..Len(SplitCandidates) :
              Len(SplitCandidates[k]) > 10 =>
                  SplitCandidates[k] \in Range(split.chunks)

\* a text of two sentences or more, one of them returned in a chunk and
\* another one lost with a dropped chunk
C22_Witness ==
    /\ SplitReturned
    /\ Len(split.chunks) >= 1
    /\ \E kept \in SplitSentences, lost \in SplitSentences :
          /\ \E k \in 1..Len(split.chunks) : Contains(split.chunks[k], Trim(kept))
          /\ \A k \in 1..Len(split.chunks) : ~Contains(split.chunks[k], Trim(lost))

\* C23 (as claimed): for every text, targetSize and overlap, overlap below 5
\* included, a returned chunk holding more than one sentence is no longer
\* than targetSize plus the length of one sentence (here: of the longest
\* sentence of the text).
C23_ChunkSizeBound ==
    SplitReturned =>
        \A k \in 1..Len(split.chunks) :
            (\E s1 \in SplitSentences, s2 \in SplitSentences :
                 Contains(split.chunks[k], Trim(s1) \o <<" ">> \o Trim(s2)))
            => \E s \in SplitSentences :
                   Len(split.chunks[k]) <= split.chunkSize + Len(Trim(s))

\* C24: every chunk returned by splitTextIntoChunks is trimmed, non-empty and
\* longer than 10 characters; the pushed chunks of length 10 or less are
\* dropped and the longer ones kept, in order; for an empty or
\* whitespace-only text the result is the empty sequence.
C24_ChunkFloor ==
    SplitReturned =>
        /\ \A k \in 1..Len(split.chunks) :
              /\ split.chunks[k] = Trim(split.chunks[k])
              /\ split.chunks[k] # <<>>
              /\ Len(split.chunks[k]) > 10
        /\ LET Longer(chunk) == Len(chunk) > 10
           IN  split.chunks = SelectSeq(SplitCandidates, Longer)
        /\ Trim(split.text) = <<>> => split.chunks = <<>>

\* a text whose pushed chunks are one of exactly 10 characters, dropped, and
\* a longer one, returned
C24_Witness ==
    /\ SplitReturned
    /\ Len(split.chunks) >= 1
    /\ \E k \in 1..Len(SplitCandidates) : Len(SplitCandidates[k]) = 10

----------------------------------------------------------------------------
\* a request that reaches the session check of a handler (POST, JSON body
\* with the fields the handler asks for) and does not pass it: no
\* Authorization header, a token that resolves to no user, or a userId that
\* is not the user of the token
Unauthorized(req) ==
    /\ req.method = "POST"
    /\ req.bodyOk
    /\ req.userId # NoUser
    /\ req.token \notin Users \/ req.token # req.userId

\* C25: for both handlers, a request with no Authorization header, with a
\* token that resolves to no user, or with a userId other than the token's
\* user is answered 401 and causes no document status write, no storage
\* download, no chunk insert, no embedding request and no chat-completion
\* request: the only outbound call it can cause is the auth lookup.
C25_UnauthorizedDoNothing ==
    /\ \A req \in IngestRequests(Docs, SpecFiles) :
          Unauthorized(req) =>
              LET out == IngestEntry(req)
              IN  /\ out.pc = "done"
                  /\ out.response.status = 401
                  /\ out.io \subseteq {"auth"}
                  /\ out.inserted = 0
                  /\ out.reqs = <<>>
    /\ \A req \in QueryRequests :
          (Unauthorized(req) /\ req.query # NoQuery) =>
              LET out == QueryEntry(req)
              IN  /\ out.pc = "done"
                  /\ out.response.status = 401
                  /\ out.calls \subseteq {"auth"}
                  /\ out.chat = <<>>
    /\ \A r \in Runs :
          (ing[r].pc = "done" /\ ing[r].response.status = 401) =>
              (ing[r].io \subseteq {"auth"} /\ ing[r].inserted = 0)
    /\ (qry.pc = "done" /\ qry.response.status = 401) =>
          (qry.calls \subseteq {"auth"} /\ qry.chat = <<>>)

\* both handlers have answered 401 after the auth lookup, and nothing was
\* written
C25_Witness ==
    /\ Run.pc = "done" /\ Run.response.status = 401 /\ Run.io = {"auth"}
    /\ qry.pc = "done" /\ qry.response.status = 401 /\ qry.calls = {"auth"}
    /\ document_chunks = <<>>
    /\ \A d \in Docs : documents[d].processing_status = "pending"

----------------------------------------------------------------------------
(* The two loops that call the remote endpoints, generateEmbeddingsForChunks*)
(* and generateChatResponse, called directly; each fetch is split into the *)
(* sending of the request and the arrival of the answer.  Both fetch calls *)
(* are made without an abort signal (lines 540-551 and 247-260), so a      *)
(* request in flight ends only when the endpoint answers or the connection *)
(* fails                                                                   *)

\* the argument lists of generateEmbeddingsForChunks: none, one, six and 21 chunks
ChunkLists == {<<>>, ChunksOfText("pdf"), ChunksOfText("a"), ChunksOfText("n")}

InitOutbound ==
    /\ split = NoSplit
    /\ browser = NoPage
    /\ GROQ_API_KEY = TRUE
    /\ documents = ChatDocuments
    /\ document_chunks = ChatStore
    /\ ingests = 1
    /\ \E chunks \in ChunkLists :
          ing = [r \in Runs |->
                    EnterEmbeddings([IngIdle EXCEPT !.userId = "u1", !.documentId = "d1",
                                                    !.io = {"auth", "status_write", "download"}],
                                    chunks, GROQ_API_KEY)]
    /\ \E query \in QueryTexts, from \in ScanStarts(ChatStore) :
          /\ qry = QueryBeforeChat("u1", query, from)
          /\ qry.pc = "chat"

\* variant: the body of the for loop runs once before the test
LoopTest_BodyFirst(rec) == rec.i < Len(rec.chunks) \/ rec.i = 0

\* line 536: i < chunks.length
LoopTest(rec) == rec.i < Len(rec.chunks)

\* lines 540-551: await fetch(embeddings), no signal, no timer
EmbSend(r) ==
    /\ ing[r].pc = "embed"
    /\ LoopTest(ing[r])
    /\ ing' = [ing EXCEPT ![r].pc = "embed_wait"]
    /\ UNCHANGED <<split, browser, GROQ_API_KEY, documents, document_chunks, qry, ingests>>

\* the endpoint answers, or the connection fails (status 0): lines 553-584
EmbAnswer(r) ==
    /\ ing[r].pc = "embed_wait"
    /\ \E status \in EmbedStatuses :
          /\ status = 429 => Count429(ing[r].reqs) < Max429
          /\ ing' = [ing EXCEPT ![r] = EmbedIteration([ing[r] EXCEPT !.pc = "embed"], status)]
    /\ UNCHANGED <<split, browser, GROQ_API_KEY, documents, document_chunks, qry, ingests>>

\* lines 247-260: await fetch(chat/completions), no signal, no timer
ChatSend ==
    /\ qry.pc = "chat"
    /\ qry.attempt < maxAttempts
    /\ qry' = [qry EXCEPT !.pc = "chat_wait"]
    /\ UNCHANGED <<split, browser, GROQ_API_KEY, documents, document_chunks, ing, ingests>>

\* the endpoint answers, or the connection fails: lines 262-292
ChatAnswer ==
    /\ qry.pc = "chat_wait"
    /\ \E status \in ChatStatuses :
          qry' = ChatIteration([qry EXCEPT !.pc = "chat"], status)
    /\ UNCHANGED <<split, browser, GROQ_API_KEY, documents, document_chunks, ing, ingests>>

\* the steps of the functions themselves, taken whenever they can be
ProgramStep == (\E r \in Runs : EmbSend(r) \/ GenEmbReturn(r)) \/ ChatSend

NextOutbound ==
    \/ \E r \in Runs : EmbSend(r)
    \/ \E r \in Runs : EmbAnswer(r)
    \/ \E r \in Runs : GenEmbReturn(r)
    \/ ChatSend
    \/ ChatAnswer

\* the event loop runs every continuation that is ready; nothing obliges the
\* remote endpoint to answer
SpecOutbound == InitOutbound /\ [][NextOutbound]_vars /\ WF_vars(ProgramStep)

\* C26 (as claimed): every outbound call of a run is under the timeout
\* wrapper, so a remote endpoint that never responds cannot keep the run
\* from terminating: generateEmbeddingsForChunks returns or throws, and
\* generateChatResponse ends with an answer of the handler.
C26_RunsTerminate ==
    /\ <>(Run.pc \in {"insert", "catch"})
    /\ <>(qry.pc = "done")

\* C28: with the API credential configured, generateEmbeddingsForChunks([])
\* returns an empty list and sends no request to the embedding endpoint.
C28_EmptyBatch ==
    (GROQ_API_KEY /\ Run.chunks = <<>>) =>
        /\ Run.pc \in {"embed", "insert"}
        /\ Run.reqs = <<>>
        /\ Run.pc = "insert" => Run.embeddings = <<>>

\* generateEmbeddingsForChunks([]) has returned
C28_Witness ==
    /\ GROQ_API_KEY
    /\ Run.chunks = <<>>
    /\ Run.pc = "insert"
    /\ Run.embeddings = <<>>

----------------------------------------------------------------------------
\* C27: when query embedding, retrieval or generateChatResponse fails
\* (exhaustion of the 3 attempts included), the query handler responds 500
\* with the fixed message 'Failed to process query. Please try again.', the
\* response never holds the text of the underlying error, and the cause is
\* logged.
C27_GenericApology ==
    /\ (qry.pc = "done" /\ qry.err # "") =>
          /\ qry.response.status = 500
          /\ qry.response.error = "Failed to process query. Please try again."
          /\ qry.response.error # qry.err
          /\ qry.response.answer = ""
          /\ qry.response.sourceChunks = <<>>
    /\ (qry.pc = "done" /\ qry.response.status = 500) => qry.err # ""
    /\ qry.pc # "done" => qry.err = ""

\* the three attempts of generateChatResponse are used up and the handler
\* has answered
C27_Witness ==
    /\ qry.pc = "done"
    /\ qry.err = "Failed to generate response after maximum attempts"
    /\ Len(qry.chat) = maxAttempts
    /\ qry.response.status = 500

----------------------------------------------------------------------------
(* The web front end: loading a page (index.html with its module scripts,  *)
(* config.html with its inline script) and one call of uploadSingleFile    *)

\* what localStorage holds under RAG_CHATBOT_CONFIG: nothing, a string that
\* is no JSON, the placeholders of the template, a URL without a key, or
\* both credentials
Saved == {"absent", "garbage", "placeholder", "nokey", "valid"}

UrlPlaceholder == "your_supabase_project_url_here"
KeyPlaceholder == "your_supabase_anon_key_here"

\* config.js, getConfig in a browser (process is undefined there): the parsed
\* item, or the empty configuration when the item is missing or no JSON
getConfig(saved) ==
    CASE saved = "valid" ->
           [SUPABASE_URL |-> "https://p.supabase.co", SUPABASE_ANON_KEY |-> "anon"]
      [] saved = "nokey" ->
           [SUPABASE_URL |-> "https://p.supabase.co", SUPABASE_ANON_KEY |-> ""]
      [] saved = "placeholder" ->
           [SUPABASE_URL |-> UrlPlaceholder, SUPABASE_ANON_KEY |-> KeyPlaceholder]
      [] OTHER ->
           [SUPABASE_URL |-> "", SUPABASE_ANON_KEY |-> ""]

\* config.js, isConfigured
isConfigured(saved) ==
    LET config == getConfig(saved)
    IN  /\ config.SUPABASE_URL # ""
        /\ config.SUPABASE_ANON_KEY # ""
        /\ config.SUPABASE_URL # UrlPlaceholder
        /\ config.SUPABASE_ANON_KEY # KeyPlaceholder

\* config.js, validateConfig: TRUE iff it returns, FALSE iff it throws
validateConfig(config) ==
    /\ ~(config.SUPABASE_URL = "" \/ config.SUPABASE_URL = UrlPlaceholder)
    /\ ~(config.SUPABASE_ANON_KEY = "" \/ config.SUPABASE_ANON_KEY = KeyPlaceholder)

\* the message of the error validateConfig throws
ConfigError(config) ==
    IF config.SUPABASE_URL = "" \/ config.SUPABASE_URL = UrlPlaceholder
    THEN "SUPABASE_URL is not configured"
    ELSE "SUPABASE_ANON_KEY is not configured"

Paths == {"/", "/index.html", "/config.html"}
MainPages == {"/", "/index.html"}

\* currentPage.includes('config.html')
IncludesConfig(path) == path = "/config.html"

\* config.js, redirectToConfigIfNeeded: the place the window is at afterwards
redirectToConfigIfNeeded(path, saved) ==
    IF ~isConfigured(saved) /\ ~IncludesConfig(path) THEN "/config.html" ELSE path

\* utils.js, validateFile
MAX_SIZE == 10 * 1024 * 1024
ALLOWED_TYPES ==
    {"application/pdf", "text/plain",
     "application/vnd.openxmlformats-officedocument.wordprocessingml.document"}
FILE_TOO_LARGE == "File size must be less than 10MB"
INVALID_FILE_TYPE == "Only PDF, TXT, and DOCX files are supported"

validateFile(file) ==
    IF file.size > MAX_SIZE THEN [valid |-> FALSE, error |-> FILE_TOO_LARGE]
    ELSE IF file.type \notin ALLOWED_TYPES THEN [valid |-> FALSE, error |-> INVALID_FILE_TYPE]
    ELSE [valid |-> TRUE, error |-> ""]

\* the files the user may pick
Files ==
    [size : {0, MAX_SIZE - 1, MAX_SIZE, MAX_SIZE + 1},
     type : ALLOWED_TYPES \cup {"image/png", ""}]
NoFile == [size |-> 0, type |-> "none"]

\* a page being parsed: no script has run
PageAt(path, saved) ==
    [pc |-> "parse", page |-> path, href |-> path, saved |-> saved,
     listener |-> FALSE, console |-> {}, file |-> NoFile, io |-> {}, toast |-> ""]

InitBrowser ==
    /\ split = NoSplit
    /\ GROQ_API_KEY = TRUE
    /\ documents = [d \in Docs |-> [uploaded_by |-> Owner(d), processing_status |-> "pending"]]
    /\ document_chunks = <<>>
    /\ ing = [r \in Runs |-> IngIdle]
    /\ qry = QryIdle
    /\ ingests = 0
    /\ \E path \in Paths, saved \in Saved : browser = PageAt(path, saved)

\* the scripts of the page run.  index.html (lines 82-91) loads auth.js and
\* index.js as modules; auth.js calls validateConfig(getConfig()) at its top
\* level (lines 10-11), and a module whose evaluation throws fails every
\* module that imports it: index.js imports auth.js, so its body, which
\* registers the DOMContentLoaded listener, does not run.  config.html has
\* an inline script only
RunScripts ==
    /\ browser.pc = "parse"
    /\ browser' =
          IF browser.page \in MainPages
          THEN IF validateConfig(getConfig(browser.saved))
               THEN [browser EXCEPT !.pc = "scripts_done", !.listener = TRUE]
               ELSE [browser EXCEPT !.pc = "scripts_done",
                                    !.console = {ConfigError(getConfig(browser.saved))}]
          ELSE [browser EXCEPT !.pc = "scripts_done"]
    /\ UNCHANGED <<split, GROQ_API_KEY, documents, document_chunks, ing, qry, ingests>>

\* the DOMContentLoaded event: the handler of index.js, if it was registered
DOMContentLoaded ==
    /\ browser.pc = "scripts_done"
    /\ browser' =
          IF browser.listener
          THEN [browser EXCEPT !.pc = "ready",
                               !.href = redirectToConfigIfNeeded(browser.page, browser.saved)]
          ELSE [browser EXCEPT !.pc = "ready"]
    /\ UNCHANGED <<split, GROQ_API_KEY, documents, document_chunks, ing, qry, ingests>>

\* config.html, the submit handler (lines 120-146): the form requires both
\* fields; the item is stored and the window sent to index.html
ConfigSubmit ==
    /\ browser.pc = "ready"
    /\ browser.page = "/config.html"
    /\ browser.href = browser.page
    /\ browser' = [browser EXCEPT !.saved = "valid", !.href = "/index.html"]
    /\ UNCHANGED <<split, GROQ_API_KEY, documents, document_chunks, ing, qry, ingests>>

\* window.location.href was assigned: the window loads the new page
Navigate ==
    /\ browser.pc = "ready"
    /\ browser.href # browser.page
    /\ browser' = PageAt(browser.href, browser.saved)
    /\ UNCHANGED <<split, GROQ_API_KEY, documents, document_chunks, ing, qry, ingests>>

\* file-upload.js, uploadSingleFile, lines 58-64: called by the click handler
\* that initFileUpload registered
UploadValidate ==
    /\ browser.pc = "ready"
    /\ browser.listener
    /\ browser.href = browser.page
    /\ \E file \in Files :
          LET validation == validateFile(file)
          IN  browser' =
                 IF ~validation.valid
                 THEN [browser EXCEPT !.pc = "uploaded", !.file = file,
                                      !.toast = validation.error]
                 ELSE [browser EXCEPT !.pc = "session", !.file = file]
    /\ UNCHANGED <<split, GROQ_API_KEY, documents, document_chunks, ing, qry, ingests>>

\* lines 67-71: getCurrentSession
UploadSession ==
    /\ browser.pc = "session"
    /\ \E signedIn \in BOOLEAN :
          browser' =
              IF ~signedIn
              THEN [browser EXCEPT !.pc = "uploaded",
                                   !.toast = "Please sign in to upload files"]
              ELSE [browser EXCEPT !.pc = "storage"]
    /\ UNCHANGED <<split, GROQ_API_KEY, documents, document_chunks, ing, qry, ingests>>

\* lines 77-81: storage.from('documents').upload
UploadStorage ==
    /\ browser.pc = "storage"
    /\ \E ok \in BOOLEAN :
          LET sent == [browser EXCEPT !.io = @ \cup {"storage_upload"}]
          IN  browser' =
                 IF ok THEN [sent EXCEPT !.pc = "insert"]
                 ELSE [sent EXCEPT !.pc = "uploaded", !.toast = "Failed to upload"]
    /\ UNCHANGED <<split, GROQ_API_KEY, documents, document_chunks, ing, qry, ingests>>

\* lines 84-95: from('documents').insert
UploadInsert ==
    /\ browser.pc = "insert"
    /\ \E ok \in BOOLEAN :
          LET sent == [browser EXCEPT !.io = @ \cup {"insert_document"}]
          IN  browser' =
                 IF ok THEN [sent EXCEPT !.pc = "call"]
                 ELSE [sent EXCEPT !.pc = "uploaded", !.toast = "Failed to upload"]
    /\ UNCHANGED <<split, GROQ_API_KEY, documents, document_chunks, ing, qry, ingests>>

\* lines 98-110 and utils.js 23-31: fetchWithTimeout arms the timer and sends
\* the request to extract-embeddings
UploadCall ==
    /\ browser.pc = "call"
    /\ browser' = [browser EXCEPT !.pc = "fetch_wait", !.io = @ \cup {"extract_embeddings"}]
    /\ UNCHANGED <<split, GROQ_API_KEY, documents, document_chunks, ing, qry, ingests>>

\* the function answers, or the connection fails (status 0): lines 112-122
UploadAnswer ==
    /\ browser.pc = "fetch_wait"
    /\ \E status \in {200, 500, 0} :
          browser' = [browser EXCEPT !.pc = "uploaded",
                                     !.toast = IF status = 200 THEN "uploaded successfully"
                                               ELSE "Failed to upload"]
    /\ UNCHANGED <<split, GROQ_API_KEY, documents, document_chunks, ing, qry, ingests>>

\* utils.js line 25: the timer fires, controller.abort() rejects the fetch
UploadAbort ==
    /\ browser.pc = "fetch_wait"
    /\ browser' = [browser EXCEPT !.pc = "uploaded", !.toast = "Failed to upload",
                                  !.console = @ \cup {"AbortError"}]
    /\ UNCHANGED <<split, GROQ_API_KEY, documents, document_chunks, ing, qry, ingests>>

NextBrowser ==
    \/ RunScripts
    \/ DOMContentLoaded
    \/ ConfigSubmit
    \/ Navigate
    \/ UploadValidate
    \/ UploadSession
    \/ UploadStorage
    \/ UploadInsert
    \/ UploadCall
    \/ UploadAnswer
    \/ UploadAbort

SpecBrowser == InitBrowser /\ [][NextBrowser]_vars

\* C29 (as claimed): when the application is not configured, loading the
\* main page results in navigation to config.html; the redirect check of
\* the DOMContentLoaded handler runs although auth.js validates the
\* configuration at module load; and no redirect occurs when the current
\* page already is config.html.
C29_FirstVisitRedirect ==
    /\ (browser.pc = "ready" /\ browser.page \in MainPages /\ ~isConfigured(browser.saved))
          => (browser.listener /\ browser.href = "/config.html")
    /\ (browser.page = "/config.html" /\ ~isConfigured(browser.saved))
          => browser.href = browser.page

\* C30 (as claimed): a file that is not under 10 MB (size >= 10 * 1024 * 1024
\* bytes) or whose type is not PDF, plain text or DOCX is rejected by
\* validateFile, and for such a file uploadSingleFile performs no storage
\* upload, inserts no document record and makes no extract-embeddings call.
C30_UploadValidationGate ==
    (browser.file # NoFile
       /\ (browser.file.size >= 10 * 1024 * 1024 \/ browser.file.type \notin ALLOWED_TYPES))
    => /\ ~validateFile(browser.file).valid
       /\ browser.io = {}
       /\ browser.pc = "uploaded"
       /\ browser.toast \in {FILE_TOO_LARGE, INVALID_FILE_TYPE}

----------------------------------------------------------------------------
(* Two invocations of extract-embeddings at the same time, one per         *)
(* document, both past the session check; the store may reject a write     *)

TwoRuns == {"r1", "r2"}

\* the request each invocation was given
RequestOf(r) ==
    IF r = "r1"
    THEN [method |-> "POST", bodyOk |-> TRUE, token |-> "u1", userId |-> "u1",
          documentId |-> "d1", file |-> "a.txt"]
    ELSE [method |-> "POST", bodyOk |-> TRUE, token |-> "u2", userId |-> "u2",
          documentId |-> "d2", file |-> "b.pdf"]

InitTwoRuns ==
    /\ split = NoSplit
    /\ browser = NoPage
    /\ GROQ_API_KEY = TRUE
    /\ documents = [d \in Docs |-> [uploaded_by |-> Owner(d), processing_status |-> "pending"]]
    /\ document_chunks = <<>>
    /\ qry = QryIdle
    /\ ingests = 2
    /\ ing = [r \in TwoRuns |-> IngestEntry(RequestOf(r))]

NextTwoRuns ==
    \E r \in TwoRuns :
        \/ IngestSetProcessing(r, WritesMayFail)
        \/ IngestDownload(r)
        \/ GenEmbRequest(r)
        \/ GenEmbReturn(r)
        \/ IngestInsert(r, WritesMayFail)
        \/ IngestSetCompleted(r, WritesMayFail)
        \/ IngestCatch(r, WritesMayFail)

SpecTwoRuns == InitTwoRuns /\ [][NextTwoRuns]_vars

\* the chunk rows of document d, in insertion order
ChunkRowsOf(d) ==
    LET OfD(row) == row.document_id = d
    IN  SelectSeq(document_chunks, OfD)

\* C31: a run for document D writes processing_status only on the row with
\* id = D and inserts chunk rows only with document_id = D; and for every
\* interleaving of two runs for different documents, once both have
\* answered, the status and the chunk rows of each document are an outcome
\* of that document's run alone: no rows or exactly the rows of its file,
\* 'completed' only with the rows, a 200 answer only with the rows.
C31_CrossDocumentFrame ==
    /\ [][\A r \in TwoRuns :
            ing'[r] # ing[r] =>
               LET D == RequestOf(r).documentId
               IN  /\ \A d \in Docs \ {D} : documents'[d] = documents[d]
                   /\ Len(document_chunks') >= Len(document_chunks)
                   /\ SubSeq(document_chunks', 1, Len(document_chunks)) = document_chunks
                   /\ \A k \in (Len(document_chunks) + 1)..Len(document_chunks') :
                         document_chunks'[k].document_id = D]_vars
    /\ [](\A r \in TwoRuns :
            (\A q \in TwoRuns : ing[q].pc = "done") =>
               LET D == RequestOf(r).documentId
                   text == extractTextFromFile(RequestOf(r).file)
               IN  /\ ChunkRowsOf(D) \in {<<>>, StoredRows(D, text)}
                   /\ Len(ChunkRowsOf(D)) = ing[r].inserted
                   /\ documents[D].processing_status = "completed"
                         => ChunkRowsOf(D) = StoredRows(D, text)
                   /\ ing[r].response.status = 200
                         => ChunkRowsOf(D) = StoredRows(D, text))

\* both runs have answered 200 after steps of the two were interleaved:
\* each document is 'completed' and holds the rows of its own file
C31_Witness ==
    /\ \A r \in TwoRuns : ing[r].pc = "done" /\ ing[r].response.status = 200
    /\ documents["d1"].processing_status = "completed"
    /\ documents["d2"].processing_status = "completed"
    /\ ChunkRowsOf("d1") = StoredRows("d1", "a")
    /\ ChunkRowsOf("d2") = StoredRows("d2", "pdf")
    /\ document_chunks[1].document_id = "d2"

\* C32 (as claimed): an extract-embeddings request authenticated as user U
\* changes the processing_status and the chunk rows only of documents whose
\* uploaded_by is U; a request that names a documentId of another user
\* leaves that document's status and chunks unchanged.
C32_IngestionRespectsOwnership ==
    [][\A r \in Runs, d \in Docs :
          (ing[r].userId \in Users /\ documents[d].uploaded_by # ing[r].userId) =>
              /\ documents'[d] = documents[d]
              /\ ChunkRowsOf(d)' = ChunkRowsOf(d)]_vars

----------------------------------------------------------------------------
(* Zero chunks (SpecIngest)                                                *)

NoChunksCreated == "No chunks created from text content"

\* the run's text is not blank and splitTextIntoChunks returns no chunk of it
ZeroChunks(f) ==
    LET textContent == extractTextFromFile(f)
    IN  /\ textContent # Unsupported
        /\ ~IsBlank(textContent)
        /\ ChunkCount(textContent) = 0

\* the handler has answered a run that threw on an empty chunk list
AnsweredNoChunks == Run.pc = "done" /\ Run.response.error = NoChunksCreated

\* C33 as stated: after a run whose text gave no chunk the document's status
\* is 'error'
C33_StatusIsError ==
    (AnsweredNoChunks /\ Run.documentId # NoDoc) =>
        documents[Run.documentId].processing_status = "error"

\* C33 (zero chunks is a hard failure): a run whose extracted text is not
\* blank but gives no chunk throws right after the split: it never enters
\* generateEmbeddingsForChunks, makes no embedding request, inserts no chunk
\* row, sends the update of the document's status to 'error' and answers 500
\* with success = false; the status is 'error' when the store accepted that
\* update
C33_ZeroChunksFail ==
    /\ Run.pc \in {"embed", "insert", "set_completed"} => Len(Run.chunks) > 0
    /\ (Run.pc = "catch" /\ "download" \in Run.io /\ ZeroChunks(Run.file)) =>
          Run.err \in {NoChunksCreated, "Failed to download file"}
    /\ (Run.pc = "catch" /\ Run.err = NoChunksCreated) =>
          /\ ZeroChunks(Run.file)
          /\ Run.reqs = <<>>
          /\ Run.inserted = 0 /\ "insert" \notin Run.io
    /\ AnsweredNoChunks =>
          /\ Run.response.status = 500
          /\ Run.response.success = FALSE
          /\ Run.inserted = 0 /\ "insert" \notin Run.io
          /\ Run.documentId # NoDoc =>
                /\ "error_write" \in Run.io
                /\ "error_written" \in Run.io =>
                      documents[Run.documentId].processing_status = "error"

\* a run on a document whose text gave no chunk was answered and the store
\* took the update to 'error'
C33_Witness ==
    /\ AnsweredNoChunks
    /\ Run.documentId # NoDoc
    /\ "error_written" \in Run.io
    /\ documents[Run.documentId].processing_status = "error"
    /\ Run.inserted = 0

----------------------------------------------------------------------------
(* Overlap seeding (SpecSplit)                                             *)

\* the closings of lines 504-511 in the loop from sentence k on: the buffer
\* closed, the sentence that did not fit and the buffer the loop goes on with
RECURSIVE SplitCloses(_, _, _, _, _)
SplitCloses(sentences, k, currentChunk, chunkSize, overlap) ==
    IF k > Len(sentences)
    THEN <<>>
    ELSE LET trimmedSentence == Trim(sentences[k])
             seeded == OverlapSeed(currentChunk, overlap) \o <<" ">> \o trimmedSentence
         IN  IF trimmedSentence = <<>>
             THEN SplitCloses(sentences, k + 1, currentChunk, chunkSize, overlap)
             ELSE IF Len(currentChunk) + Len(trimmedSentence) > chunkSize
                     /\ Len(currentChunk) > 0
             THEN <<[closed |-> currentChunk, sentence |-> trimmedSentence,
                     next |-> seeded]>>
                  \o SplitCloses(sentences, k + 1, seeded, chunkSize, overlap)
             ELSE SplitCloses(sentences, k + 1,
                              currentChunk \o <<" ">> \o trimmedSentence,
                              chunkSize, overlap)

Closes == SplitCloses(SentencesOf(split.text), 1, <<>>, split.chunkSize, split.overlap)

\* C34 (as claimed): whenever splitTextIntoChunks closes a chunk, the buffer
\* for the next chunk is the last floor(overlap / 5) space-separated words of
\* the buffer just closed followed by the new sentence, for every
\* overlap >= 0; for overlap < 5 the seed carries no word of the previous
\* chunk
C34_OverlapSeeding ==
    SplitReturned =>
        \A k \in 1..Len(Closes) :
            LET words == SplitAt(Closes[k].closed, {" "})
                n == split.overlap \div 5
                \* the last n words: none for n = 0, all when there are no more
                lastWords == IF n >= Len(words) THEN words
                             ELSE SubSeq(words, Len(words) - n + 1, Len(words))
                seed == Join(lastWords, <<" ">>)
            IN  /\ Closes[k].next = seed \o <<" ">> \o Closes[k].sentence
                /\ split.overlap < 5 => seed = <<>>

----------------------------------------------------------------------------
(* Sequential batches (SpecOutbound)                                       *)

\* an embedding request of the run is in flight
EmbOutstanding == Run.pc = "embed_wait"

\* C35 (sequential batches with throttling): a request of
\* generateEmbeddingsForChunks is sent only when every earlier request of the
\* call has been answered, so at most one is outstanding; the request for the
\* next batch follows a success answer for the batch before it and the
\* 500 ms wait; after the success of the last batch there is no wait and no
\* further request
C35_SequentialBatches ==
    /\ EmbOutstanding =>
          /\ Run.i < Len(Run.chunks)
          /\ Len(Run.embeddings) = Run.i
          /\ \A k \in 1..Len(EmbLog) : EmbLog[k].status \in {200, 429}
          /\ Run.i > 0 =>
                \E k \in 1..Len(EmbLog) :
                    /\ EmbLog[k].status = 200
                    /\ EmbLog[k].start = Run.i - batchSize
                    /\ EmbLog[k].sleep = BatchDelay
                    /\ \A j \in (k + 1)..Len(EmbLog) :
                          EmbLog[j].status = 429 /\ EmbLog[j].start = Run.i
    /\ \A k \in 1..(Len(EmbLog) - 1) :
          EmbLog[k + 1].start # EmbLog[k].start =>
              /\ EmbLog[k].status = 200
              /\ EmbLog[k].sleep = BatchDelay
              /\ EmbLog[k + 1].start = EmbLog[k].start + batchSize
    /\ \A k \in 1..Len(EmbLog) :
          (EmbLog[k].status = 200 /\ EmbLog[k].start + batchSize >= Len(Run.chunks)) =>
              /\ EmbLog[k].sleep = 0
              /\ k = Len(EmbLog)
              /\ ~EmbOutstanding

\* a call on three batches has returned: each batch but the last was followed
\* by the 500 ms wait, the last by none, with a 429 in between
C35_Witness ==
    /\ Run.pc = "insert"
    /\ Len(Run.chunks) = 2 * batchSize + 1
    /\ \E k \in 1..Len(EmbLog) : EmbLog[k].status = 429
    /\ EmbLog[Len(EmbLog)].status = 200
    /\ EmbLog[Len(EmbLog)].start = 2 * batchSize
    /\ EmbLog[Len(EmbLog)].sleep = 0
    /\ EmbLog[1].status = 200 /\ EmbLog[1].sleep = BatchDelay

----------------------------------------------------------------------------
(* The waits of generateChatResponse (SpecChat)                            *)

C37_NoWaitAfterFinalAttempt ==
    \A n \in 1..Len(ChatLog) :
        ChatLog[n].delay > 0 => (n < Len(ChatLog) \/ qry.pc = "chat")

----------------------------------------------------------------------------
(* status-poller.js: pollEmbeddingStatus, one call (SpecPoller).  The page *)
(* state is the record of the call: the closure variable attempts, the     *)
(* status requests sent, the callbacks invoked and the pending timer       *)

POLL_INTERVAL == 2000
MAX_POLL_ATTEMPTS == 30

\* lines 202-203 and 257: attempts = 0, then poll() is called at once
\* last: how the latest round of poll that is over ended
PollerCalled ==
    [pc |-> "poll", attempts |-> 0, requests |-> 0, last |-> "",
     onUpdate |-> 0, onComplete |-> 0, onError |-> <<>>, timer |-> 0]

InitPoller ==
    /\ split = NoSplit
    /\ GROQ_API_KEY = TRUE
    /\ documents = [d \in Docs |-> [uploaded_by |-> Owner(d), processing_status |-> "pending"]]
    /\ document_chunks = <<>>
    /\ ing = [r \in Runs |-> IngIdle]
    /\ qry = QryIdle
    /\ ingests = 0
    /\ browser = PollerCalled

\* variant: the test admits one more round
MayPollAgain_Inclusive(attempts) == attempts <= MAX_POLL_ATTEMPTS

\* lines 240 and 248: attempts < MAX_POLL_ATTEMPTS
MayPollAgain(attempts) == attempts < MAX_POLL_ATTEMPTS

\* lines 246-253: the catch block of poll
PollCatch(rec, message) ==
    IF MayPollAgain(rec.attempts)
    THEN [rec EXCEPT !.pc = "scheduled", !.timer = POLL_INTERVAL, !.last = "failed"]
    ELSE [rec EXCEPT !.pc = "stopped", !.last = "failed", !.onError = Append(@, message)]

\* what getCurrentSession gives: a session, null, or a rejection
Sessions == {"session", "null", "rejected"}

\* lines 206-221: attempts++, the session, and the sending of the request
PollStart ==
    /\ browser.pc = "poll"
    /\ \E session \in Sessions :
          LET rec == [browser EXCEPT !.attempts = @ + 1, !.timer = 0, !.last = ""]
          IN  browser' =
                 CASE session = "null" ->
                        [rec EXCEPT !.pc = "stopped", !.last = "no_session",
                                    !.onError = Append(@, "Session expired")]
                   [] session = "rejected" -> PollCatch(rec, "getSession failed")
                   [] OTHER -> [rec EXCEPT !.pc = "fetching", !.requests = @ + 1]
    /\ UNCHANGED <<split, GROQ_API_KEY, documents, document_chunks, ing, qry, ingests>>

\* what the status request comes to: a body with status 'completed', 'error'
\* or another status, a non-OK response, or a rejected fetch (network
\* failure, abort by the timer of fetchWithTimeout)
PollAnswers == {"completed", "error", "processing", "not_ok", "rejected"}

\* lines 223-244: the answer of the status request and what poll does with it
PollAnswer ==
    /\ browser.pc = "fetching"
    /\ \E answer \in PollAnswers :
          browser' =
             CASE answer = "completed" ->
                    [browser EXCEPT !.pc = "stopped", !.last = "completed",
                                    !.onComplete = @ + 1]
               [] answer = "error" ->
                    [browser EXCEPT !.pc = "stopped", !.last = "error",
                                    !.onError = Append(@, "Processing failed")]
               [] answer = "processing" ->
                    LET rec == [browser EXCEPT !.onUpdate = @ + 1, !.last = "processing"]
                    IN  IF MayPollAgain(rec.attempts)
                        THEN [rec EXCEPT !.pc = "scheduled", !.timer = POLL_INTERVAL]
                        ELSE [rec EXCEPT !.pc = "stopped",
                                         !.onError = Append(@, "Processing timeout")]
               [] answer = "not_ok" -> PollCatch(browser, "Failed to check status")
               [] OTHER -> PollCatch(browser, "fetch failed")
    /\ UNCHANGED <<split, GROQ_API_KEY, documents, document_chunks, ing, qry, ingests>>

\* the timer of setTimeout(poll, POLL_INTERVAL) fires
PollTimer ==
    /\ browser.pc = "scheduled"
    /\ browser' = [browser EXCEPT !.pc = "poll"]
    /\ UNCHANGED <<split, GROQ_API_KEY, documents, document_chunks, ing, qry, ingests>>

NextPoller == PollStart \/ PollAnswer \/ PollTimer

SpecPoller == InitPoller /\ [][NextPoller]_vars

\* number of invocations of onComplete and onError together
Settlements == browser.onComplete + Len(browser.onError)

\* C39 (status poller bound): one call of pollEmbeddingStatus sends at most
\* 30 status requests; it stops when a response reports 'completed' or
\* 'error', when the session is missing, or when the 30th attempt has been
\* made, and goes on otherwise; exactly one of onComplete and onError is
\* invoked, once, and then no poll is scheduled or running
C39_PollerBound ==
    /\ browser.requests <= 30
    /\ browser.attempts <= 30
    /\ Settlements <= 1
    /\ browser.pc = "stopped" <=> Settlements = 1
    /\ browser.pc = "stopped" => browser.timer = 0
    /\ browser.pc = "stopped" <=>
          \/ browser.last \in {"completed", "error", "no_session"}
          \/ browser.attempts = 30 /\ browser.last \in {"processing", "failed"}
    /\ browser.onComplete = 1 <=> browser.last = "completed"

\* the 30th request was answered 'processing' after 29 rounds and the call
\* ended with onError, once
C39_Witness ==
    /\ browser.pc = "stopped"
    /\ browser.requests = 30
    /\ browser.onUpdate = 30
    /\ browser.onComplete = 0
    /\ browser.onError = <<"Processing timeout">>

----------------------------------------------------------------------------
(* chat.js: handleSendMessage (SpecChatPage).  The page state is the chat  *)
(* panel: the send button, the bubbles of #chat-messages, the thinking     *)
(* indicators among them, the toasts shown, and the handler in progress    *)

MaxSends == 3

\* the trimmed value of #chat-input when the handler starts
ChatInputs == {"", "question"}

ChatPage ==
    [pc |-> "idle", sends |-> 0, disabled |-> FALSE, thinkingId |-> 0,
     indicators |-> {}, messages |-> <<>>, toasts |-> {}]

InitChatPage ==
    /\ split = NoSplit
    /\ GROQ_API_KEY = TRUE
    /\ documents = [d \in Docs |-> [uploaded_by |-> Owner(d), processing_status |-> "pending"]]
    /\ document_chunks = <<>>
    /\ ing = [r \in Runs |-> IngIdle]
    /\ qry = QryIdle
    /\ ingests = 0
    /\ browser = ChatPage

\* lines 153-166: a bubble with a fresh id is appended
addThinkingIndicator(rec, id) ==
    [rec EXCEPT !.thinkingId = id, !.indicators = @ \cup {id}]

\* lines 172-177: the bubble with that id, if there is one, is removed
removeThinkingIndicator(rec, thinkingId) ==
    [rec EXCEPT !.indicators = @ \ {thinkingId}]

\* lines 122-145: a bubble of the role is appended
addMessageToChat(rec, message, role) ==
    [rec EXCEPT !.messages = Append(@, <<role, message>>)]

showToast(rec, message) == [rec EXCEPT !.toasts = @ \cup {message}]

\* lines 110-113: the finally block; the handler is over
SendFinally(rec) == [rec EXCEPT !.disabled = FALSE, !.pc = "idle"]

\* lines 105-113: the catch block, then the finally block
SendCatch(rec) ==
    SendFinally(showToast(addMessageToChat(removeThinkingIndicator(rec, rec.thinkingId),
                                           "Sorry, I encountered an error. Please try again.",
                                           "assistant"),
                          "Failed to send message"))

\* lines 59-76: click on the send button or Enter in the input, up to the
\* call of getCurrentSession
SendMessage ==
    /\ browser.pc = "idle"
    /\ browser.sends < MaxSends
    /\ \E query \in ChatInputs :
          LET rec == [browser EXCEPT !.sends = @ + 1]
          IN  browser' =
                 IF query = ""
                 THEN showToast(rec, "Please enter a question")
                 ELSE addThinkingIndicator(
                          [addMessageToChat(rec, query, "user")
                              EXCEPT !.disabled = TRUE, !.pc = "session"],
                          rec.sends)
    /\ UNCHANGED <<split, GROQ_API_KEY, documents, document_chunks, ing, qry, ingests>>

\* lines 78-94: the session, then the sending of the request
SendSession ==
    /\ browser.pc = "session"
    /\ \E session \in Sessions :
          browser' =
             CASE session = "null" ->
                    SendFinally(showToast(browser, "Please sign in to chat"))
               [] session = "rejected" -> SendCatch(browser)
               [] OTHER -> [browser EXCEPT !.pc = "fetching"]
    /\ UNCHANGED <<split, GROQ_API_KEY, documents, document_chunks, ing, qry, ingests>>

\* what the request comes to: an OK response with an answer, a non-OK
\* response, or a rejected fetch (network failure, abort by the timer of
\* fetchWithTimeout)
SendAnswers == {"ok", "not_ok", "rejected"}

\* lines 96-113: the answer of query-chat and what the handler does with it
SendAnswer ==
    /\ browser.pc = "fetching"
    /\ \E answer \in SendAnswers :
          browser' =
             IF answer = "ok"
             THEN SendFinally(addMessageToChat(
                                  removeThinkingIndicator(browser, browser.thinkingId),
                                  "answer", "assistant"))
             ELSE SendCatch(browser)
    /\ UNCHANGED <<split, GROQ_API_KEY, documents, document_chunks, ing, qry, ingests>>

NextChatPage == SendMessage \/ SendSession \/ SendAnswer

SpecChatPage == InitChatPage /\ [][NextChatPage]_vars

\* C40 (as claimed): on every path through handleSendMessage that passes the
\* empty-query check (answer, non-OK response, thrown error or timeout,
\* missing session), when the handler settles the send button is enabled
\* again and the thinking indicator it added has been removed from the chat
C40_HandlerCleanup ==
    browser.pc = "idle" =>
        /\ ~browser.disabled
        /\ browser.thinkingId \notin browser.indicators

----------------------------------------------------------------------------
(* Termination of an ingestion run (SpecIngestFair): the runs of           *)
(* SpecIngest, with every step of a run that is under way eventually       *)
(* taken: each remote call returns, and the embedding endpoint answers 429 *)
(* at most Max429 times per call                                           *)

RunStep ==
    \E r \in Runs :
        \/ IngestSetProcessing(r, WritesMayFail)
        \/ IngestDownload(r)
        \/ GenEmbRequest(r)
        \/ GenEmbReturn(r)
        \/ IngestInsert(r, WritesMayFail)
        \/ IngestSetCompleted(r, WritesMayFail)
        \/ IngestCatch(r, WritesMayFail)

SpecIngestFair == Init /\ [][NextIngest]_vars /\ WF_vars(RunStep)

\* the run under way has made its 'processing' write and the document is in
\* 'processing'
RunInProcessing ==
    /\ Run.pc \notin {"idle", "done"}
    /\ "status_write" \in Run.io
    /\ Run.documentId \in Docs
    /\ documents[Run.documentId].processing_status = "processing"

\* the run has answered
RunAnswered == Run.pc = "done"

\* C38 (as claimed): every ingestion run that has set a document's status to
\* 'processing' eventually sends a response and leaves the document in
\* 'completed' or 'error', given that every remote call returns and the
\* embedding service does not answer 429 forever; no run ends with the
\* document left in 'processing'
C38_IngestionReachesTerminalState ==
    /\ RunInProcessing ~> RunAnswered
    /\ [][(RunInProcessing /\ RunAnswered') =>
             documents'[Run.documentId].processing_status \in {"completed", "error"}]_vars

====
